---- MODULE Spec2Model ----
(***************************************************************************)
(* Collection-and-persistence pipeline of the trading data collector.      *)
(*                                                                         *)
(* MarketDataCollector (data_collectors/market_data.py) fetches price bars *)
(* through BaseCollector._retry_on_failure, validates them and hands them  *)
(* to the DatabaseManager it imports, which is the SQLite manager of       *)
(* storage/database.py (market_data.py line 6).                            *)
(*                                                                         *)
(* One collect call is followed step by step: the start of the call, each  *)
(* iteration of the retry loop, and the part after the fetch (empty test,  *)
(* validation, write, return).                                             *)
(***************************************************************************)
EXTENDS Integers, Sequences, FiniteSets, TLC

VARIABLES
    market_data,   \* rows of the SQLite table market_data
    pc,            \* position of the collector: "idle", "retry", "fetched", "done"
    symbol,        \* argument symbol of the running / last collect call
    interval,      \* argument interval of the running / last collect call
    attempt,       \* loop variable of _retry_on_failure
    calls,         \* invocations of the wrapped function in this call
    events,        \* sleeps and provider calls of this call, in order
    data,          \* the DataFrame returned by _fetch_data (NoData before)
    raised,        \* _retry_on_failure re-raised the last error
    error,         \* the exception e bound last: the call that raised it (0: none)
    validated,     \* _validate_market_data ran in this call
    saved,         \* save_market_data was entered in this call
    fault,         \* storage fault met by save_market_data in this call
    inserted,      \* value returned by save_market_data (-1: none)
    result,        \* value returned by collect (FALSE until it returns)
    \* MarketDataCollector.collect_multiple
    cm_pc,         \* "idle", "loop", "collecting", "returned"
    cm_symbols,    \* the argument symbols, as given
    cm_i,          \* position of the loop in cm_symbols
    cm_results,    \* the dict results
    cm_trace,      \* collect calls and pauses of this call, in order
    cm_calls,      \* calls of collect_multiple so far
    \* NewsCollector and the table news
    news,          \* rows of the table news, in insertion order
    np_cfg,        \* settings.SYMBOLS as the news collector reads it
    np_feed,       \* the articles the provider holds for the lookback window
    np_pc,         \* position of process_and_store: "idle", "loop", "done"
    np_articles,   \* the list fetch_news returned in this run
    np_i,          \* position of the loop in np_articles
    np_inserted,   \* the counter inserted of this run
    np_before,     \* number of rows of news when this run started
    np_run_failed, \* inserts of this run that added no row
    np_fetches,    \* runs so far in which fetch_news returned the feed
    np_failed,     \* inserts so far that added no row
    np_runs,       \* runs of process_and_store so far
    \* FundamentalsCollector and the fundamentals tables
    companies,          \* rows of the table companies
    income_statements,  \* rows of the table income_statements
    balance_sheets,     \* rows of the table balance_sheets
    cash_flows,         \* rows of the table cash_flows
    financial_ratios,   \* rows of the table financial_ratios
    last_profile,  \* per symbol, the profile of the last committed save
    f_op,          \* the collector method called last ("none" before)
    f_symbol,      \* its argument symbol
    f_input,       \* what the provider gave it
    f_before,      \* the companies row of f_symbol before the call
    f_result,      \* the boolean it returned
    f_persisted,   \* its profile INSERT was committed
    f_calls,       \* calls of the collector so far
    fa_pc,         \* collect_all_fundamentals: "idle", "profile", "statements",
                   \* "ratios", "returned"
    fa_results,    \* the dict results
    fa_trace,      \* sub-collections and pauses of this call, in order
    \* FundamentalsCollector.collect_multiple_fundamentals
    cmf_pc,        \* "idle", "loop", "collecting", "returned"
    cmf_symbols,   \* the argument symbols, as given
    cmf_valid,     \* the list valid_symbols
    cmf_i,         \* position of the loop in cmf_valid
    cmf_results,   \* the dict all_results
    cmf_trace,     \* skips, collect_all_fundamentals calls and pauses, in order
    \* the functions followed on their own: the scorers, the indicators and
    \* the reads of the price table
    fn_pc,         \* "idle" before the call, "done" after it
    fn_arg,        \* the arguments of the call
    fn_ret,        \* what the call returned or raised
    \* the settings read from the environment and the driver main()
    env,           \* which settings are set; << >> where a call takes the
                   \* setting with its input
    main_pc,       \* position of main: "idle", the step to run next, "exited"
    main_status,   \* exit status of the process (-1: still running)
    main_steps,    \* the steps main has run to their end, in order
    main_error     \* the step an exception escaped from, "none" without one

\* the variables of one collect call and of the price table
mvars == <<market_data, pc, symbol, interval, attempt, calls, events, data,
           raised, error, validated, saved, fault, inserted, result>>

cmVars == <<cm_pc, cm_symbols, cm_i, cm_results, cm_trace, cm_calls>>

newsVars == <<news, np_cfg, np_feed, np_pc, np_articles, np_i, np_inserted,
              np_before, np_run_failed, np_fetches, np_failed, np_runs>>

fundVars == <<companies, income_statements, balance_sheets, cash_flows,
              financial_ratios, last_profile, f_op, f_symbol, f_input, f_before,
              f_result, f_persisted, f_calls, fa_pc, fa_results, fa_trace>>

cmfVars == <<cmf_pc, cmf_symbols, cmf_valid, cmf_i, cmf_results, cmf_trace>>

fnVars == <<fn_pc, fn_arg, fn_ret>>

mainVars == <<env, main_pc, main_status, main_steps, main_error>>

\* what no collector touches
laterVars == <<fnVars, mainVars>>

\* what neither the price, the news nor the single-symbol fundamentals
\* collection touches
restVars == <<cmfVars, laterVars>>

\* what the functions followed on their own never touch
collectorVars == <<mvars, cmVars, newsVars, fundVars, cmfVars, mainVars>>

\* what the market data collector never touches
otherVars == <<newsVars, fundVars, restVars>>

vars == <<mvars, cmVars, otherVars>>

----------------------------------------------------------------------------
(* Bounds of the model *)

\* longest provider response, in rows
MaxRows == 2
\* whole seconds a bar's timestamp can take
MaxTime == 2
\* longest symbol list handed to collect_multiple
MaxSymbols == 2
\* calls of collect_multiple in one behaviour
MaxBatches == 2
\* longest news feed, in articles
MaxArticles == 2
\* runs of process_and_store in one behaviour
MaxRuns == 2
\* fiscal years and calendar days the fundamentals providers can report
MaxDate == 2
\* largest amount of a statement line
MaxAmount == 2
\* calls of collect_company_profile in one behaviour
MaxFundCalls == 3
\* calls of collect_financial_statements and collect_key_ratios in one behaviour
MaxStatementCalls == 2
\* calls of collect_all_fundamentals in one behaviour
MaxAllCalls == 1
\* longest symbol list handed to collect_multiple_fundamentals
MaxFundSymbols == 3
\* longest close series handed to an indicator
MaxSeries == 4
\* largest close of such a series
MaxClose == 3
\* largest window of an indicator
MaxWindow == 3
\* rows in a price table that is read, and its datetimes
MaxStored == 3
\* largest limit of a read
MaxLimit == 3

----------------------------------------------------------------------------
(* Configuration: config/settings.py *)

REQUEST_DELAY == 1
MAX_RETRIES == 3
SYMBOLS == {"AAPL", "GOOGL"}
DEFAULT_INTERVAL == "1d"

\* BaseCollector.__init__ copies the two settings into the instance
request_delay == REQUEST_DELAY
max_retries == MAX_RETRIES

----------------------------------------------------------------------------
(* Text: strings are sequences of characters *)

CasePairs ==
    { <<"A", "a">>, <<"E", "e">>, <<"G", "g">>, <<"L", "l">>, <<"O", "o">>,
      <<"P", "p">>, <<"S", "s">>, <<"V", "v">>, <<"X", "x">> }

\* str.upper and str.lower, character by character
UpperChar(c) ==
    IF \E q \in CasePairs : q[2] = c
    THEN (CHOOSE q \in CasePairs : q[2] = c)[1] ELSE c

LowerChar(c) ==
    IF \E q \in CasePairs : q[1] = c
    THEN (CHOOSE q \in CasePairs : q[1] = c)[2] ELSE c

Upper(t) == [i \in 1..Len(t) |-> UpperChar(t[i])]

Lower(t) == [i \in 1..Len(t) |-> LowerChar(t[i])]

\* str.strip: leading and trailing blanks are removed
RECURSIVE LStrip(_)
LStrip(t) == IF t # << >> /\ Head(t) = " " THEN LStrip(Tail(t)) ELSE t

RECURSIVE RStrip(_)
RStrip(t) ==
    IF t # << >> /\ t[Len(t)] = " " THEN RStrip(SubSeq(t, 1, Len(t) - 1)) ELSE t

Strip(t) == RStrip(LStrip(t))

\* the spelling of the configured symbols
Spelling ==
    "AAPL" :> <<"A", "A", "P", "L">> @@ "GOOGL" :> <<"G", "O", "O", "G", "L">>
    @@ "VALE3.SA" :> <<"V", "A", "L", "E", "3", ".", "S", "A">>

\* the symbol a spelling stands for
SymbolOf(t) == CHOOSE n \in DOMAIN Spelling : Spelling[n] = t

----------------------------------------------------------------------------
(* Provider responses *)

\* a missing value of a float column (pandas NaN, stored as NULL)
NaN == -999

Required == {"Open", "High", "Low", "Close", "Volume"}

\* index values of the DataFrame: an instant with a part below one second
\* that the "%Y-%m-%d %H:%M:%S" format does not print
Timestamps == [sec : 1..MaxTime, sub : {0}] \cup {[sec |-> 1, sub |-> 1]}

\* a plain bar, the same bar with another close, a bar with High < Low, and
\* a bar with non-positive prices and no High
BarValues ==
    { [open |-> 1, high |-> 2, low |-> 1, close |-> 1, volume |-> 1],
      [open |-> 1, high |-> 2, low |-> 1, close |-> 2, volume |-> 1],
      [open |-> 1, high |-> 1, low |-> 2, close |-> 1, volume |-> 1],
      [open |-> 0, high |-> NaN, low |-> 0, close |-> 1, volume |-> 1] }

Rows == { [ts |-> t, open |-> b.open, high |-> b.high, low |-> b.low,
           close |-> b.close, volume |-> b.volume] :
          t \in Timestamps, b \in BarValues }

RowSeqs == UNION { [1..n -> Rows] : n \in 0..MaxRows }

\* ticker.history returns its rows in index order
Ordered(rows) ==
    \A i \in 1..Len(rows) : \A j \in 1..Len(rows) :
        i < j => \/ rows[i].ts.sec < rows[j].ts.sec
                 \/ /\ rows[i].ts.sec = rows[j].ts.sec
                    /\ rows[i].ts.sub <= rows[j].ts.sub

\* a response lacking a required column is taken with one row only
DataFrames ==
    { [columns |-> Required, rows |-> r] : r \in {q \in RowSeqs : Ordered(q)} }
    \cup
    { [columns |-> Required \ {"Close"}, rows |-> <<r>>] :
      r \in {q \in Rows : q.ts.sub = 0 /\ q.high = 2 /\ q.open = 1 /\ q.close = 1} }

NoData == [columns |-> {}, rows |-> <<>>]

\* variant: the emptiness test never fires
EmptyNever(df) == FALSE

\* DataFrame.empty
Empty(df) == Len(df.rows) = 0 \/ df.columns = {}

----------------------------------------------------------------------------
(* BaseCollector *)

\* _rate_limit: one sleep of request_delay, when it is positive
RateLimitEvents ==
    IF request_delay > 0 THEN << [kind |-> "rate_limit", secs |-> request_delay] >>
    ELSE << >>

ProviderCall == [kind |-> "provider_call", secs |-> 0]

\* variant: the same wait after every failed attempt
BackoffConstant(a) == [kind |-> "backoff", secs |-> 1]

\* variant: the wait grows linearly with the attempt
BackoffLinear(a) == [kind |-> "backoff", secs |-> 2 * a]

\* wait_time = 2 ** attempt, slept between a failed attempt and the next one
BackoffEvent(a) == [kind |-> "backoff", secs |-> 2 ^ a]

\* variant: the loop body is not entered again after the first attempt
InLoopOnce(a) == a < 1

\* for attempt in range(self.max_retries)
InLoop(a) == a < max_retries

\* variant: the last attempt also sleeps and goes on instead of raising
RetryLeftAlways(a) == a < max_retries

\* if attempt < self.max_retries - 1: sleep and go on, else: raise
RetryLeft(a) == a < max_retries - 1

\* variant: ticker.history is called without the rate limit
FetchEventsUnlimited == << ProviderCall >>

\* _fetch_data: the rate limit, then ticker.history
FetchEvents == RateLimitEvents \o << ProviderCall >>

----------------------------------------------------------------------------
(* MarketDataCollector._validate_market_data *)

Lt(a, b) == a # NaN /\ b # NaN /\ a < b

MissingColumns(df) == Required \ df.columns

\* variant: no row is ever found with High < Low
HighBelowLowNever(df) == FALSE

\* (data['High'] < data['Low']).any(): a comparison with NaN is False
HighBelowLow(df) == \E i \in 1..Len(df.rows) : Lt(df.rows[i].high, df.rows[i].low)

Abs(x) == IF x < 0 THEN -x ELSE x

\* (data[col] <= 0).any() over Open, High, Low, Close
NonPositivePrices(df) ==
    \E i \in 1..Len(df.rows) :
        \E v \in {df.rows[i].open, df.rows[i].high, df.rows[i].low, df.rows[i].close} :
            v # NaN /\ v <= 0

\* data['Close'].pct_change().abs() > 0.5, for closes that are present
Outliers(df) ==
    /\ Len(df.rows) > 1
    /\ \E i \in 2..Len(df.rows) :
        LET p == df.rows[i - 1].close
            c == df.rows[i].close
        IN  /\ p # NaN /\ c # NaN
            /\ \/ p = 0 /\ c # 0
               \/ p # 0 /\ 2 * Abs(c - p) > Abs(p)

\* variant: the High < Low test is left out
ValidateColumnsOnly(df) == MissingColumns(df) = {}

\* variant: the warn-only tests reject the data as well
ValidateStrict(df) ==
    /\ MissingColumns(df) = {}
    /\ ~HighBelowLow(df)
    /\ ~NonPositivePrices(df)
    /\ ~Outliers(df)

ValidateMarketData(df) ==
    /\ MissingColumns(df) = {}
    /\ ~HighBelowLow(df)

----------------------------------------------------------------------------
(* storage/database.py: DatabaseManager.save_market_data *)

\* index.strftime('%Y-%m-%d %H:%M:%S'): the part below one second is dropped
Strftime(ts) == ts.sec

Record(row, s, iv) ==
    [symbol |-> s, datetime |-> Strftime(row.ts), interval_type |-> iv,
     open |-> row.open, high |-> row.high, low |-> row.low,
     close |-> row.close, volume |-> row.volume]

SameKey(a, b) ==
    /\ a.symbol = b.symbol
    /\ a.datetime = b.datetime
    /\ a.interval_type = b.interval_type

\* variant: INSERT OR REPLACE, which reports a changed row every time
InsertOrReplace(table, rec) ==
    [table |-> {r \in table : ~SameKey(r, rec)} \cup {rec}, rowcount |-> 1]

\* variant: a plain INSERT into a table without the UNIQUE constraint
InsertAlways(table, rec) == [table |-> table \cup {rec}, rowcount |-> 1]

\* INSERT OR IGNORE under UNIQUE(symbol, datetime, interval_type), with the
\* cursor's rowcount
InsertOrIgnore(table, rec) ==
    IF \E r \in table : SameKey(r, rec)
    THEN [table |-> table, rowcount |-> 0]
    ELSE [table |-> table \cup {rec}, rowcount |-> 1]

\* the loop over the records; failing is the set of positions whose INSERT
\* raises sqlite3.Error, which the loop logs and passes over
RECURSIVE SaveLoop(_, _, _, _, _, _)
SaveLoop(table, rows, s, iv, failing, i) ==
    IF i > Len(rows) THEN [table |-> table, inserted |-> 0]
    ELSE LET rec  == Record(rows[i], s, iv)
             exec == IF i \in failing THEN [table |-> table, rowcount |-> 0]
                     ELSE InsertOrIgnore(table, rec)
             rest == SaveLoop(exec.table, rows, s, iv, failing, i + 1)
         IN  [table |-> rest.table,
              inserted |-> rest.inserted + (IF exec.rowcount > 0 THEN 1 ELSE 0)]

SaveMarketData(table, df, s, iv, failing) ==
    IF Empty(df) THEN [table |-> table, inserted |-> 0]
    ELSE SaveLoop(table, df.rows, s, iv, failing, 1)

----------------------------------------------------------------------------
(* State machine *)

\* collect_multiple has not been called
CmIdle ==
    /\ cm_pc = "idle"
    /\ cm_symbols = << >>
    /\ cm_i = 0
    /\ cm_results = << >>
    /\ cm_trace = << >>
    /\ cm_calls = 0

MarketInit ==
    /\ market_data = {}
    /\ pc = "idle"
    /\ symbol = "AAPL"
    /\ interval = DEFAULT_INTERVAL
    /\ attempt = 0
    /\ calls = 0
    /\ events = << >>
    /\ data = NoData
    /\ raised = FALSE
    /\ error = 0
    /\ validated = FALSE
    /\ saved = FALSE
    /\ fault = "none"
    /\ inserted = -1
    /\ result = FALSE

\* process_and_store has not been called; the table news is empty
NewsIdle ==
    /\ news = << >>
    /\ np_pc = "idle"
    /\ np_articles = << >>
    /\ np_i = 0
    /\ np_inserted = 0
    /\ np_before = 0
    /\ np_run_failed = 0
    /\ np_fetches = 0
    /\ np_failed = 0
    /\ np_runs = 0

\* the companies row of a symbol that has none
NoProfile == [symbol |-> "", company_name |-> "", market_cap |-> 0]

\* what the provider gave, before any call
NoInput == [name |-> "", amount |-> 0, date |-> 0, present |-> {}, fault |-> "none"]

FundIdle ==
    /\ companies = {}
    /\ income_statements = {}
    /\ balance_sheets = {}
    /\ cash_flows = {}
    /\ financial_ratios = {}
    /\ last_profile = [s \in SYMBOLS |-> NoProfile]
    /\ f_op = "none"
    /\ f_symbol = ""
    /\ f_input = NoInput
    /\ f_before = NoProfile
    /\ f_result = FALSE
    /\ f_persisted = FALSE
    /\ f_calls = 0
    /\ fa_pc = "idle"
    /\ fa_results = << >>
    /\ fa_trace = << >>

CmfIdle ==
    /\ cmf_pc = "idle"
    /\ cmf_symbols = << >>
    /\ cmf_valid = << >>
    /\ cmf_i = 0
    /\ cmf_results = << >>
    /\ cmf_trace = << >>

\* no function has been called
FnIdle ==
    /\ fn_pc = "idle"
    /\ fn_arg = << >>
    /\ fn_ret = << >>

\* main is not running
MainIdle ==
    /\ env = << >>
    /\ main_pc = "idle"
    /\ main_status = -1
    /\ main_steps = << >>
    /\ main_error = "none"

RestIdle == CmfIdle /\ FnIdle /\ MainIdle

Init ==
    /\ MarketInit
    /\ CmIdle
    /\ NewsIdle /\ np_cfg = SYMBOLS /\ np_feed = << >>
    /\ FundIdle
    /\ RestIdle

\* collect(symbol, period, interval) is entered
CollectBegin(s, iv) ==
    /\ pc \in {"idle", "done"}
    /\ pc' = "retry"
    /\ symbol' = s
    /\ interval' = iv
    /\ attempt' = 0
    /\ calls' = 0
    /\ events' = << >>
    /\ data' = NoData
    /\ raised' = FALSE
    /\ error' = 0
    /\ validated' = FALSE
    /\ saved' = FALSE
    /\ fault' = "none"
    /\ inserted' = -1
    /\ result' = FALSE
    /\ UNCHANGED market_data

\* collect called on its own
CollectStart(s, iv) ==
    /\ cm_pc = "idle"
    /\ CollectBegin(s, iv)
    /\ UNCHANGED <<cmVars, otherVars>>

\* an iteration of the retry loop in which _fetch_data returns df
FetchReturns(df) ==
    /\ pc = "retry"
    /\ InLoop(attempt)
    /\ calls' = calls + 1
    /\ events' = events \o FetchEvents
    /\ data' = df
    /\ pc' = "fetched"
    /\ UNCHANGED <<market_data, symbol, interval, attempt, raised, error,
                   validated, saved, fault, inserted, result>>
    /\ UNCHANGED <<cmVars, otherVars>>

\* an iteration in which ticker.history raises and another attempt is left
FetchFailsRetry ==
    /\ pc = "retry"
    /\ InLoop(attempt)
    /\ RetryLeft(attempt)
    /\ calls' = calls + 1
    /\ events' = events \o FetchEvents \o << BackoffEvent(attempt) >>
    /\ attempt' = attempt + 1
    /\ error' = calls + 1
    /\ UNCHANGED <<market_data, pc, symbol, interval, data, raised, validated,
                   saved, fault, inserted, result>>
    /\ UNCHANGED <<cmVars, otherVars>>

\* variant: collect has no handler, the exception reaches its caller
CaughtPropagates == [pc |-> "raised", result |-> FALSE]

\* except Exception as e: the error is logged, return False
Caught == [pc |-> "done", result |-> FALSE]

\* the last iteration raises: the error is re-raised, collect catches it
FetchFailsLast ==
    /\ pc = "retry"
    /\ InLoop(attempt)
    /\ ~RetryLeft(attempt)
    /\ calls' = calls + 1
    /\ events' = events \o FetchEvents
    /\ error' = calls + 1
    /\ raised' = TRUE
    /\ result' = Caught.result
    /\ pc' = Caught.pc
    /\ UNCHANGED <<market_data, symbol, interval, attempt, data, validated,
                   saved, fault, inserted>>
    /\ UNCHANGED <<cmVars, otherVars>>

\* data.empty: "No data returned", return False
EmptyReturn ==
    /\ pc = "fetched"
    /\ Empty(data)
    /\ result' = FALSE
    /\ pc' = "done"
    /\ UNCHANGED <<market_data, symbol, interval, attempt, calls, events, data,
                   raised, error, validated, saved, fault, inserted>>
    /\ UNCHANGED <<cmVars, otherVars>>

\* _validate_market_data returns False, return False
ValidateFails ==
    /\ pc = "fetched"
    /\ ~Empty(data)
    /\ ~ValidateMarketData(data)
    /\ validated' = TRUE
    /\ result' = FALSE
    /\ pc' = "done"
    /\ UNCHANGED <<market_data, symbol, interval, attempt, calls, events, data,
                   raised, error, saved, fault, inserted>>
    /\ UNCHANGED <<cmVars, otherVars>>

\* validation passes and save_market_data runs to its end; the INSERTs at
\* the positions in failing raise sqlite3.Error
SaveReturns(failing) ==
    /\ pc = "fetched"
    /\ ~Empty(data)
    /\ ValidateMarketData(data)
    /\ LET r == SaveMarketData(market_data, data, symbol, interval, failing)
       IN  /\ market_data' = r.table
           /\ inserted' = r.inserted
    /\ validated' = TRUE
    /\ saved' = TRUE
    /\ fault' = IF failing = {} THEN "none" ELSE "record"
    /\ result' = TRUE
    /\ pc' = "done"
    /\ UNCHANGED <<symbol, interval, attempt, calls, events, data, raised,
                   error>>
    /\ UNCHANGED <<cmVars, otherVars>>

\* validation passes and save_market_data raises outside the per-record
\* handler (sqlite3.connect or commit): nothing is committed, collect
\* catches the error
SaveRaises ==
    /\ pc = "fetched"
    /\ ~Empty(data)
    /\ ValidateMarketData(data)
    /\ validated' = TRUE
    /\ saved' = TRUE
    /\ fault' = "connection"
    /\ result' = Caught.result
    /\ pc' = Caught.pc
    /\ UNCHANGED <<market_data, symbol, interval, attempt, calls, events, data,
                   raised, error, inserted>>
    /\ UNCHANGED <<cmVars, otherVars>>

Next ==
    \/ \E s \in SYMBOLS : CollectStart(s, DEFAULT_INTERVAL)
    \/ \E df \in DataFrames : FetchReturns(df)
    \/ FetchFailsRetry
    \/ FetchFailsLast
    \/ EmptyReturn
    \/ ValidateFails
    \/ \E failing \in SUBSET (1..Len(data.rows)) : SaveReturns(failing)
    \/ SaveRaises

Spec == Init /\ [][Next]_vars

----------------------------------------------------------------------------
(* MarketDataCollector.collect_multiple *)

\* symbols as a caller may write them
RawSymbols ==
    { <<"A", "A", "P", "L">>, <<" ", "a", "a", "p", "l">>,
      <<"G", "O", "O", "G", "L">> }

SymbolLists == UNION { [1..n -> RawSymbols] : n \in 0..MaxSymbols }

\* symbol = symbol.strip().upper()
NormalizeSymbol(raw) == SymbolOf(Upper(Strip(raw)))

\* responses of at most one row, and the ones lacking a column
ShortFrames == {df \in DataFrames : Len(df.rows) <= 1}

\* variant: the loop stops at the first symbol whose collection failed
CmAdvanceUntilFailure(i, n, res) == IF res = TRUE THEN i + 1 ELSE n + 1

\* for symbol in symbols: the position after the one just handled
CmAdvance(i, n, res) == i + 1

\* collect_multiple(symbols, period, interval) is entered
CmStart(symbols) ==
    /\ cm_pc \in {"idle", "returned"}
    /\ cm_calls < MaxBatches
    /\ cm_pc' = "loop"
    /\ cm_symbols' = symbols
    /\ cm_i' = 1
    /\ cm_results' = << >>
    /\ cm_trace' = << >>
    /\ cm_calls' = cm_calls + 1
    /\ UNCHANGED <<mvars, otherVars>>

\* the loop takes the next symbol, normalises it and calls collect
CmCollect ==
    /\ cm_pc = "loop"
    /\ cm_i <= Len(cm_symbols)
    /\ LET s == NormalizeSymbol(cm_symbols[cm_i])
       IN  /\ CollectBegin(s, DEFAULT_INTERVAL)
           /\ cm_trace' = Append(cm_trace, [kind |-> "collect", symbol |-> s])
    /\ cm_pc' = "collecting"
    /\ UNCHANGED <<cm_symbols, cm_i, cm_results, cm_calls>>
    /\ UNCHANGED otherVars

\* collect has returned: results[symbol] = ..., then the pause
CmRecord ==
    /\ cm_pc = "collecting"
    /\ pc = "done"
    /\ cm_results' = (symbol :> result) @@ cm_results
    /\ cm_trace' = cm_trace \o
                   [i \in 1..Len(RateLimitEvents) |->
                       [kind |-> "rate_limit", symbol |-> symbol]]
    /\ cm_i' = CmAdvance(cm_i, Len(cm_symbols), result)
    /\ cm_pc' = "loop"
    /\ UNCHANGED <<cm_symbols, cm_calls>>
    /\ UNCHANGED <<mvars, otherVars>>

\* the loop is over: return results
CmReturn ==
    /\ cm_pc = "loop"
    /\ cm_i > Len(cm_symbols)
    /\ cm_pc' = "returned"
    /\ UNCHANGED <<cm_symbols, cm_i, cm_results, cm_trace, cm_calls>>
    /\ UNCHANGED <<mvars, otherVars>>

NextMulti ==
    \/ \E symbols \in SymbolLists : CmStart(symbols)
    \/ CmCollect
    \/ \E df \in ShortFrames : FetchReturns(df)
    \/ FetchFailsRetry
    \/ FetchFailsLast
    \/ EmptyReturn
    \/ ValidateFails
    \/ \E failing \in SUBSET (1..Len(data.rows)) : SaveReturns(failing)
    \/ SaveRaises
    \/ CmRecord
    \/ CmReturn

SpecMulti == Init /\ [][NextMulti]_vars

----------------------------------------------------------------------------
(* NewsCollector: data_collectors/news_collector.py *)

\* values of settings.SYMBOLS: the default and one with an exchange suffix
SymbolConfigs == { SYMBOLS, {"AAPL", "VALE3.SA"} }

\* articles of the provider: title, content and description, "" when absent
Articles ==
    { [title |-> <<"x">>, content |-> <<"a", "a", "p", "l">>, description |-> << >>],
      [title |-> <<"A", "A", "P", "L">>, content |-> <<"x">>, description |-> << >>],
      [title |-> <<"x">>, content |-> <<"x">>, description |-> << >>],
      [title |-> << >>, content |-> <<"a", "a", "p", "l">>, description |-> << >>],
      [title |-> <<"G", "o", "o", "g", "l">>, content |-> << >>,
       description |-> <<"a", "a", "p", "l">>],
      [title |-> <<"v", "a", "l", "e", "3">>, content |-> << >>, description |-> << >>],
      [title |-> <<"a", "a">>, content |-> <<"p", "l">>, description |-> << >>] }

Feeds == UNION { [1..n -> Articles] : n \in 0..MaxArticles }

\* pattern in text, for Python strings
Contains(text, pattern) ==
    \E k \in 0..(Len(text) - Len(pattern)) :
        SubSeq(text, k + 1, k + Len(pattern)) = pattern

\* symbol.split('.')[0]
RECURSIVE BeforeDot(_)
BeforeDot(t) ==
    IF t = << >> \/ Head(t) = "." THEN << >> ELSE <<Head(t)>> \o BeforeDot(Tail(t))

BaseTicker(name) == BeforeDot(Spelling[name])

\* item.get("content") or item.get("description") or ""
ContentOf(item) == IF item.content # << >> THEN item.content ELSE item.description

\* title + " " + content
JoinedText(title, content) == title \o <<" ">> \o content

\* variant: every article is relevant
IsRelevantAlways(title, content, cfg) == TRUE

\* _is_relevant
IsRelevant(title, content, cfg) ==
    \E n \in cfg : Contains(Lower(JoinedText(title, content)), Lower(BaseTicker(n)))

\* variant: the text is searched as written, without lower()
ExtractSymbolsCaseSensitive(text, cfg) ==
    {n \in cfg : Contains(text, Lower(BaseTicker(n)))}

\* variant: the symbol is searched with its exchange suffix
ExtractSymbolsSuffixed(text, cfg) ==
    {n \in cfg : Contains(Lower(text), Lower(Spelling[n]))}

\* _extract_symbols: the elements of list(set(found))
ExtractSymbols(text, cfg) ==
    {n \in cfg : Contains(Lower(text), Lower(BaseTicker(n)))}

\* the orders in which list(set(found)) can come out
Orders(S) ==
    {q \in [1..Cardinality(S) -> S] :
        \A i \in DOMAIN q : \A j \in DOMAIN q : i # j => q[i] # q[j]}

\* insert_news: [str(s).strip() for s in symbols if s]
CleanSymbols(list) ==
    LET kept == SelectSeq(list, LAMBDA n : Spelling[n] # << >>)
    IN  [i \in 1..Len(kept) |-> SymbolOf(Strip(Spelling[kept[i]]))]

\* the row insert_news writes; symbols is NULL for an empty list
NewsRow(title, content, list) ==
    [title |-> title, content |-> content,
     symbols |-> IF list = << >> THEN << >> ELSE CleanSymbols(list),
     symbols_null |-> list = << >>]

\* variant: an article already stored is not inserted again
InsertNewsOnce(table, row) ==
    IF \E k \in 1..Len(table) : table[k] = row THEN table ELSE Append(table, row)

\* INSERT INTO news: the table has no key but the serial id
InsertNews(table, row) == Append(table, row)

NewsInit ==
    /\ NewsIdle
    /\ np_cfg \in SymbolConfigs
    /\ np_feed \in Feeds

InitNews == MarketInit /\ CmIdle /\ NewsInit /\ FundIdle /\ RestIdle

\* process_and_store is entered; fetch_news returns the feed, or [] when the
\* key is missing, the status is not 200 or the request raises
NpStart(fetched) ==
    /\ np_pc \in {"idle", "done"}
    /\ np_runs < MaxRuns
    /\ np_pc' = "loop"
    /\ np_articles' = IF fetched THEN np_feed ELSE << >>
    /\ np_i' = 1
    /\ np_inserted' = 0
    /\ np_before' = Len(news)
    /\ np_run_failed' = 0
    /\ np_fetches' = np_fetches + (IF fetched THEN 1 ELSE 0)
    /\ np_runs' = np_runs + 1
    /\ UNCHANGED <<news, np_cfg, np_feed, np_failed>>
    /\ UNCHANGED <<mvars, cmVars, fundVars, restVars>>

NpTitle == np_articles[np_i].title

NpContent == ContentOf(np_articles[np_i])

\* the article has no title or is not relevant: continue
NpSkip ==
    /\ np_pc = "loop"
    /\ np_i <= Len(np_articles)
    /\ NpTitle = << >> \/ ~IsRelevant(NpTitle, NpContent, np_cfg)
    /\ np_i' = np_i + 1
    /\ UNCHANGED <<news, np_cfg, np_feed, np_pc, np_articles, np_inserted,
                   np_before, np_run_failed, np_fetches, np_failed, np_runs>>
    /\ UNCHANGED <<mvars, cmVars, fundVars, restVars>>

NpRelevant ==
    /\ np_pc = "loop"
    /\ np_i <= Len(np_articles)
    /\ NpTitle # << >>
    /\ IsRelevant(NpTitle, NpContent, np_cfg)

\* the article is relevant and insert_news commits its row
NpInsert(list) ==
    /\ NpRelevant
    /\ list \in Orders(ExtractSymbols(JoinedText(NpTitle, NpContent), np_cfg))
    /\ news' = InsertNews(news, NewsRow(NpTitle, NpContent, list))
    /\ np_inserted' = np_inserted + 1
    /\ np_i' = np_i + 1
    /\ UNCHANGED <<np_cfg, np_feed, np_pc, np_articles, np_before,
                   np_run_failed, np_fetches, np_failed, np_runs>>
    /\ UNCHANGED <<mvars, cmVars, fundVars, restVars>>

\* the INSERT raises inside insert_news, which rolls back, logs and returns
NpInsertSwallowed ==
    /\ NpRelevant
    /\ np_inserted' = np_inserted + 1
    /\ np_run_failed' = np_run_failed + 1
    /\ np_failed' = np_failed + 1
    /\ np_i' = np_i + 1
    /\ UNCHANGED <<news, np_cfg, np_feed, np_pc, np_articles, np_before,
                   np_fetches, np_runs>>
    /\ UNCHANGED <<mvars, cmVars, fundVars, restVars>>

\* the connection cannot be opened: insert_news raises, the loop logs it
NpInsertRaises ==
    /\ NpRelevant
    /\ np_run_failed' = np_run_failed + 1
    /\ np_failed' = np_failed + 1
    /\ np_i' = np_i + 1
    /\ UNCHANGED <<news, np_cfg, np_feed, np_pc, np_articles, np_inserted,
                   np_before, np_fetches, np_runs>>
    /\ UNCHANGED <<mvars, cmVars, fundVars, restVars>>

\* the loop is over: the count is logged
NpFinish ==
    /\ np_pc = "loop"
    /\ np_i > Len(np_articles)
    /\ np_pc' = "done"
    /\ UNCHANGED <<news, np_cfg, np_feed, np_articles, np_i, np_inserted,
                   np_before, np_run_failed, np_fetches, np_failed, np_runs>>
    /\ UNCHANGED <<mvars, cmVars, fundVars, restVars>>

NextNews ==
    \/ \E fetched \in BOOLEAN : NpStart(fetched)
    \/ NpSkip
    \/ \E list \in UNION { [1..n -> np_cfg] : n \in 0..Cardinality(np_cfg) } :
           NpInsert(list)
    \/ NpInsertSwallowed
    \/ NpInsertRaises
    \/ NpFinish

SpecNews == InitNews /\ [][NextNews]_vars

----------------------------------------------------------------------------
(* FundamentalsCollector: data_collectors/fundamentals_collector.py, and the
   fundamentals writes of storage/database_postgres.py *)

\* numbers as the Alpha Vantage OVERVIEW answer spells them
NumberTexts == {"None", "1", "2"}

\* float(text) raises ValueError unless the text is a number
Parses(t) == t \in {"1", "2"}

\* float(text)
ParseFloat(t) == IF t = "1" THEN 1 ELSE 2

\* answers to the OVERVIEW request; name and cap are read only when the
\* status is "ok", has_name says whether the key Name is present
ProfileResponses ==
    [status : {"ok"}, has_name : {TRUE}, name : {"n1", "n2"}, cap : NumberTexts]
    \cup [status : {"ok"}, has_name : {FALSE}, name : {""}, cap : {"1"}]
    \cup [status : {"no_key", "http_error", "note", "error_message", "no_symbol"},
          has_name : {FALSE}, name : {""}, cap : {"1"}]

\* faults of a write that goes through psycopg2: the connection cannot be
\* opened (raises), or the statement fails (rolled back, logged, swallowed)
PgFaults == {"none", "connect", "execute"}

\* faults of a write that goes through the SQLAlchemy connection: execute
\* raises, or the row is written and commit raises
EngineFaults == {"none", "raises", "commit_raises"}

\* variant: the conflicting row keeps its market_cap
UpsertProfileNameOnly(table, row) ==
    IF \E r \in table : r.symbol = row.symbol
    THEN {IF r.symbol = row.symbol
          THEN [r EXCEPT !.company_name = row.company_name] ELSE r : r \in table}
    ELSE table \cup {row}

\* INSERT INTO companies ... ON CONFLICT (symbol) DO UPDATE SET every column
UpsertProfile(table, row) ==
    {r \in table : r.symbol # row.symbol} \cup {row}

\* save_company_profile
SaveCompanyProfile(table, row, flt) ==
    [table |-> IF flt = "none" THEN UpsertProfile(table, row) ELSE table,
     raised |-> flt = "connect",
     committed |-> flt = "none"]

\* variant: the request is sent before the key is looked at
OverviewRequestsAlways(resp) == 1

\* requests.get calls of collect_company_profile and of collect_key_ratios:
\* none when settings.ALPHA_VANTAGE_API_KEY is empty
OverviewRequests(resp) == IF resp.status = "no_key" THEN 0 ELSE 1

\* collect_company_profile: the table after it, what it returns, whether
\* its INSERT was committed, and the requests it sent
CollectCompanyProfile(table, s, resp, flt) ==
    IF resp.status # "ok" \/ ~Parses(resp.cap)
    THEN [table |-> table, result |-> FALSE, persisted |-> FALSE,
          requests |-> OverviewRequests(resp)]
    ELSE LET w == SaveCompanyProfile(table,
                      [symbol |-> s, company_name |-> resp.name,
                       market_cap |-> ParseFloat(resp.cap)], flt)
         IN  [table |-> w.table,
              result |-> ~w.raised /\ resp.has_name,
              persisted |-> w.committed,
              requests |-> OverviewRequests(resp)]

\* a row of a statements table or of the ratios table
StatementRow(s, d, period, amount) ==
    [symbol |-> s, date |-> d, period |-> period, amount |-> amount]

SameStatementKey(r, q) ==
    r.symbol = q.symbol /\ r.date = q.date /\ r.period = q.period

\* variant: the conflicting row is overwritten
InsertDoUpdate(table, row) ==
    {r \in table : ~SameStatementKey(r, row)} \cup {row}

\* INSERT ... ON CONFLICT (symbol, date, period) DO NOTHING
InsertDoNothing(table, row) ==
    IF \E r \in table : SameStatementKey(r, row) THEN table ELSE table \cup {row}

\* a write that is not attempted
NoWrite(table) == [table |-> table, raised |-> FALSE]

\* save_income_statement, save_balance_sheet
SaveStatement(table, row, flt) ==
    [table |-> IF flt = "none" THEN InsertDoNothing(table, row) ELSE table,
     raised |-> flt = "connect"]

\* save_cash_flow, save_financial_ratios: no try around execute and commit
SaveViaEngine(table, row, flt) ==
    [table |-> IF flt = "raises" THEN table ELSE InsertDoNothing(table, row),
     raised |-> flt # "none"]

\* what yfinance gives for a symbol: the statements it has, their latest
\* fiscal year and one line of them
StatementData ==
    [present : SUBSET {"income", "balance", "cashflow"},
     date : 1..MaxDate, amount : 1..MaxAmount]

\* where collect_financial_statements can fail: the provider, or one write
StatementFaults ==
    {[at |-> "none", how |-> "none"], [at |-> "provider", how |-> "raises"]}
    \cup [at : {"income", "balance"}, how : PgFaults \ {"none"}]
    \cup [at : {"cashflow"}, how : EngineFaults \ {"none"}]

FaultAt(flt, kind) == IF flt.at = kind THEN flt.how ELSE "none"

\* collect_financial_statements: the three tables after it and what it returns
CollectFinancialStatements(inc, bal, csh, s, d, flt) ==
    LET row == StatementRow(s, d.date, "FY", d.amount)
        i == IF flt.at # "provider" /\ "income" \in d.present
             THEN SaveStatement(inc, row, FaultAt(flt, "income"))
             ELSE NoWrite(inc)
        b == IF flt.at # "provider" /\ ~i.raised /\ "balance" \in d.present
             THEN SaveStatement(bal, row, FaultAt(flt, "balance"))
             ELSE NoWrite(bal)
        c == IF flt.at # "provider" /\ ~i.raised /\ ~b.raised
                /\ "cashflow" \in d.present
             THEN SaveViaEngine(csh, row, FaultAt(flt, "cashflow"))
             ELSE NoWrite(csh)
    IN  [income |-> i.table, balance |-> b.table, cashflow |-> c.table,
         result |-> /\ flt.at # "provider"
                    /\ ~i.raised /\ ~b.raised /\ ~c.raised
                    /\ d.present # {},
         requests |-> IF flt.at = "provider" \/ i.raised THEN 1
                      ELSE IF b.raised THEN 2 ELSE 3]

\* collect_key_ratios: the ratios table after it and what it returns
CollectKeyRatios(table, s, resp, today, flt) ==
    IF resp.status # "ok" \/ ~Parses(resp.cap)
    THEN [table |-> table, result |-> FALSE, requests |-> OverviewRequests(resp)]
    ELSE LET w == SaveViaEngine(table,
                      StatementRow(s, today, "TTM", ParseFloat(resp.cap)), flt)
         IN  [table |-> w.table, result |-> ~w.raised,
              requests |-> OverviewRequests(resp)]

\* the effect of collect_company_profile on the tables
ProfileEffect(s, resp, flt) ==
    LET o == CollectCompanyProfile(companies, s, resp, flt) IN
    /\ companies' = o.table
    /\ last_profile' =
           IF o.persisted
           THEN [last_profile EXCEPT ![s] =
                    [symbol |-> s, company_name |-> resp.name,
                     market_cap |-> ParseFloat(resp.cap)]]
           ELSE last_profile
    /\ UNCHANGED <<income_statements, balance_sheets, cash_flows, financial_ratios>>

\* the effect of collect_financial_statements on the tables
StatementsEffect(s, d, flt) ==
    LET o == CollectFinancialStatements(income_statements, balance_sheets,
                                        cash_flows, s, d, flt) IN
    /\ income_statements' = o.income
    /\ balance_sheets' = o.balance
    /\ cash_flows' = o.cashflow
    /\ UNCHANGED <<companies, last_profile, financial_ratios>>

\* the effect of collect_key_ratios on the tables
RatiosEffect(s, resp, today, flt) ==
    /\ financial_ratios' = CollectKeyRatios(financial_ratios, s, resp, today, flt).table
    /\ UNCHANGED <<companies, last_profile, income_statements, balance_sheets,
                   cash_flows>>

\* the companies row of a symbol, NoProfile when it has none
ProfileOf(table, s) ==
    IF \E r \in table : r.symbol = s
    THEN CHOOSE r \in table : r.symbol = s ELSE NoProfile

\* collect_company_profile(symbol), called on its own
ProfileCall(s, resp, flt) ==
    /\ fa_pc = "idle"
    /\ f_calls < MaxFundCalls
    /\ ProfileEffect(s, resp, flt)
    /\ f_op' = "profile"
    /\ f_symbol' = s
    /\ f_input' = [NoInput EXCEPT !.name = resp.name, !.fault = flt,
                       !.amount = IF Parses(resp.cap) THEN ParseFloat(resp.cap) ELSE 0]
    /\ f_before' = ProfileOf(companies, s)
    /\ f_result' = CollectCompanyProfile(companies, s, resp, flt).result
    /\ f_persisted' = CollectCompanyProfile(companies, s, resp, flt).persisted
    /\ f_calls' = f_calls + 1
    /\ UNCHANGED <<fa_pc, fa_results, fa_trace>>
    /\ UNCHANGED <<mvars, cmVars, newsVars, restVars>>

\* collect_financial_statements(symbol), called on its own
StatementsCall(s, d, flt) ==
    /\ fa_pc = "idle"
    /\ f_calls < MaxStatementCalls
    /\ StatementsEffect(s, d, flt)
    /\ f_op' = "statements"
    /\ f_symbol' = s
    /\ f_input' = [NoInput EXCEPT !.amount = d.amount, !.date = d.date,
                       !.present = d.present, !.fault = flt.at]
    /\ f_before' = NoProfile
    /\ f_result' = CollectFinancialStatements(income_statements, balance_sheets,
                                              cash_flows, s, d, flt).result
    /\ f_persisted' = FALSE
    /\ f_calls' = f_calls + 1
    /\ UNCHANGED <<fa_pc, fa_results, fa_trace>>
    /\ UNCHANGED <<mvars, cmVars, newsVars, restVars>>

\* collect_key_ratios(symbol), called on its own
RatiosCall(s, resp, today, flt) ==
    /\ fa_pc = "idle"
    /\ f_calls < MaxStatementCalls
    /\ RatiosEffect(s, resp, today, flt)
    /\ f_op' = "ratios"
    /\ f_symbol' = s
    /\ f_input' = [NoInput EXCEPT !.date = today, !.fault = flt,
                       !.amount = IF Parses(resp.cap) THEN ParseFloat(resp.cap) ELSE 0]
    /\ f_before' = NoProfile
    /\ f_result' = CollectKeyRatios(financial_ratios, s, resp, today, flt).result
    /\ f_persisted' = FALSE
    /\ f_calls' = f_calls + 1
    /\ UNCHANGED <<fa_pc, fa_results, fa_trace>>
    /\ UNCHANGED <<mvars, cmVars, newsVars, restVars>>

NextProfile ==
    \E s \in SYMBOLS : \E resp \in ProfileResponses : \E flt \in PgFaults :
        ProfileCall(s, resp, flt)

SpecProfile == Init /\ [][NextProfile]_vars

NextStatements ==
    \/ \E s \in SYMBOLS : \E d \in StatementData : \E flt \in StatementFaults :
           StatementsCall(s, d, flt)
    \/ \E s \in SYMBOLS : \E resp \in ProfileResponses :
           \E today \in 1..MaxDate : \E flt \in EngineFaults :
               RatiosCall(s, resp, today, flt)

SpecStatements == Init /\ [][NextStatements]_vars

\* variant: a failed sub-collection ends the call
FaNextStopOnFailure(stage, ok) ==
    IF ~ok THEN "returned"
    ELSE IF stage = "profile" THEN "statements"
    ELSE IF stage = "statements" THEN "ratios" ELSE "returned"

\* collect_all_fundamentals: what follows a sub-collection
FaNext(stage, ok) ==
    IF stage = "profile" THEN "statements"
    ELSE IF stage = "statements" THEN "ratios" ELSE "returned"

\* time.sleep(1) after the first two sub-collections
FaPause(stage) ==
    IF stage = "ratios" THEN << >>
    ELSE <<[kind |-> "sleep", symbol |-> "", secs |-> 1, requests |-> 0]>>

\* one sub-collection has returned ok after sending that many requests
FaStep(stage, ok, requests) ==
    /\ fa_pc = stage
    /\ fa_results' = (stage :> ok) @@ fa_results
    /\ fa_trace' = fa_trace \o <<[kind |-> stage, symbol |-> f_symbol, secs |-> 0,
                                    requests |-> requests]>>
                        \o FaPause(stage)
    /\ fa_pc' = FaNext(stage, ok)
    /\ UNCHANGED <<f_op, f_symbol, f_input, f_before, f_result, f_persisted, f_calls>>
    /\ UNCHANGED <<mvars, cmVars, newsVars, restVars>>

\* collect_all_fundamentals(symbol) is entered
FaBegin(s) ==
    /\ fa_pc \in {"idle", "returned", "raised"}
    /\ fa_pc' = "profile"
    /\ fa_results' = << >>
    /\ fa_trace' = << >>
    /\ f_op' = "all"
    /\ f_symbol' = s
    /\ f_calls' = f_calls + 1
    /\ UNCHANGED <<companies, income_statements, balance_sheets, cash_flows,
                   financial_ratios, last_profile, f_input, f_before, f_result,
                   f_persisted>>
    /\ UNCHANGED <<mvars, cmVars, newsVars>>

\* collect_all_fundamentals(symbol), called on its own
FaStart(s) ==
    /\ f_calls < MaxAllCalls
    /\ FaBegin(s)
    /\ UNCHANGED restVars

\* results['profile'] = self.collect_company_profile(symbol); time.sleep(1)
FaProfile(resp, flt) ==
    /\ LET o == CollectCompanyProfile(companies, f_symbol, resp, flt)
       IN  FaStep("profile", o.result, o.requests)
    /\ ProfileEffect(f_symbol, resp, flt)

\* results['statements'] = self.collect_financial_statements(symbol); time.sleep(1)
FaStatements(d, flt) ==
    /\ LET o == CollectFinancialStatements(income_statements, balance_sheets,
                                           cash_flows, f_symbol, d, flt)
       IN  FaStep("statements", o.result, o.requests)
    /\ StatementsEffect(f_symbol, d, flt)

\* results['ratios'] = self.collect_key_ratios(symbol); return results
FaRatios(resp, today, flt) ==
    /\ LET o == CollectKeyRatios(financial_ratios, f_symbol, resp, today, flt)
       IN  FaStep("ratios", o.result, o.requests)
    /\ RatiosEffect(f_symbol, resp, today, flt)

NextAll ==
    \/ \E s \in SYMBOLS : FaStart(s)
    \/ \E resp \in ProfileResponses : \E flt \in PgFaults : FaProfile(resp, flt)
    \/ \E d \in StatementData : \E flt \in StatementFaults : FaStatements(d, flt)
    \/ \E resp \in ProfileResponses : \E today \in 1..MaxDate :
           \E flt \in EngineFaults : FaRatios(resp, today, flt)

SpecAll == Init /\ [][NextAll]_vars

----------------------------------------------------------------------------
(* FundamentalsCollector.collect_multiple_fundamentals *)

\* symbols as a caller can spell them: plain, lower case with a blank, with
\* the suffix .SA, and blank
FundRawSymbols ==
    { <<"A", "A", "P", "L">>, <<"g", "o", "o", "g", "l", " ">>,
      <<"v", "a", "l", "e", "3", ".", "s", "a">>, <<" ">> }

FundSymbolLists == UNION { [1..n -> FundRawSymbols] : n \in 0..MaxFundSymbols }

\* valid_symbols = [s.strip().upper() for s in symbols if s.strip()]
ValidSymbols(symbols) ==
    LET kept == SelectSeq(symbols, LAMBDA raw : Strip(raw) # << >>)
    IN  [k \in 1..Len(kept) |-> SymbolOf(Upper(Strip(kept[k])))]

\* variant: no symbol is skipped
UnsupportedNever(name) == FALSE

\* symbol.endswith('.SA')
Unsupported(name) ==
    LET t == Spelling[name] IN
    Len(t) >= 3 /\ SubSeq(t, Len(t) - 2, Len(t)) = <<".", "S", "A">>

\* the answers and faults followed through a batch: a complete answer, one
\* without Name and an HTTP error; all statements or none; a write that
\* works or raises
BatchResponses ==
    {r \in ProfileResponses :
        r.status \in {"ok", "http_error"} /\ r.name # "n2" /\ r.cap = "1"}

BatchStatementData ==
    {d \in StatementData :
        d.date = 1 /\ d.amount = 1 /\ d.present \in {{}, {"income", "balance", "cashflow"}}}

BatchStatementFaults == {f \in StatementFaults : f.at \in {"none", "provider"}}

CmfEvent(kind, name) == [kind |-> kind, symbol |-> name]

\* collect_multiple_fundamentals(symbols) is entered
CmfStart(symbols) ==
    /\ cmf_pc = "idle"
    /\ fa_pc = "idle"
    /\ cmf_pc' = "loop"
    /\ cmf_symbols' = symbols
    /\ cmf_valid' = ValidSymbols(symbols)
    /\ cmf_i' = 1
    /\ cmf_results' = << >>
    /\ cmf_trace' = << >>
    /\ UNCHANGED <<mvars, cmVars, newsVars, fundVars, laterVars>>

\* the symbol ends with .SA: warning, continue
CmfSkip ==
    /\ cmf_pc = "loop"
    /\ cmf_i <= Len(cmf_valid)
    /\ Unsupported(cmf_valid[cmf_i])
    /\ cmf_i' = cmf_i + 1
    /\ cmf_trace' = Append(cmf_trace, CmfEvent("skip", cmf_valid[cmf_i]))
    /\ UNCHANGED <<cmf_pc, cmf_symbols, cmf_valid, cmf_results>>
    /\ UNCHANGED <<mvars, cmVars, newsVars, fundVars, laterVars>>

\* all_results[symbol] = self.collect_all_fundamentals(symbol) is entered
CmfCollect ==
    /\ cmf_pc = "loop"
    /\ cmf_i <= Len(cmf_valid)
    /\ ~Unsupported(cmf_valid[cmf_i])
    /\ FaBegin(cmf_valid[cmf_i])
    /\ UNCHANGED laterVars
    /\ cmf_pc' = "collecting"
    /\ cmf_trace' = Append(cmf_trace, CmfEvent("collect", cmf_valid[cmf_i]))
    /\ UNCHANGED <<cmf_symbols, cmf_valid, cmf_i, cmf_results>>

\* what follows one symbol: its entry, time.sleep(1.5), the next symbol
CmfAfter(entry) ==
    /\ cmf_results' = (cmf_valid[cmf_i] :> entry) @@ cmf_results
    /\ cmf_trace' = Append(cmf_trace, CmfEvent("sleep", ""))
    /\ cmf_i' = cmf_i + 1
    /\ cmf_pc' = "loop"
    /\ UNCHANGED <<cmf_symbols, cmf_valid>>
    /\ UNCHANGED <<mvars, cmVars, newsVars, laterVars>>

\* collect_all_fundamentals has returned its dict
CmfRecord ==
    /\ cmf_pc = "collecting"
    /\ fa_pc = "returned"
    /\ CmfAfter(fa_results)
    /\ UNCHANGED fundVars

\* an exception leaves collect_all_fundamentals between two sub-collections:
\* it is logged and the entry is {"success": False}
CmfRaised ==
    /\ cmf_pc = "collecting"
    /\ fa_pc \in {"profile", "statements", "ratios"}
    /\ fa_pc' = "raised"
    /\ CmfAfter("success" :> FALSE)
    /\ UNCHANGED <<companies, income_statements, balance_sheets, cash_flows,
                   financial_ratios, last_profile, f_op, f_symbol, f_input,
                   f_before, f_result, f_persisted, f_calls, fa_results, fa_trace>>

\* the loop is over: return all_results
CmfReturn ==
    /\ cmf_pc = "loop"
    /\ cmf_i > Len(cmf_valid)
    /\ cmf_pc' = "returned"
    /\ UNCHANGED <<cmf_symbols, cmf_valid, cmf_i, cmf_results, cmf_trace>>
    /\ UNCHANGED <<mvars, cmVars, newsVars, fundVars, laterVars>>

\* the sub-collections of the symbol being collected
CmfSubCollections ==
    /\ cmf_pc = "collecting"
    /\ \/ \E resp \in BatchResponses : \E flt \in {"none", "connect"} :
              FaProfile(resp, flt)
       \/ \E d \in BatchStatementData : \E flt \in BatchStatementFaults :
              FaStatements(d, flt)
       \/ \E resp \in BatchResponses : \E flt \in {"none", "raises"} :
              FaRatios(resp, 1, flt)

NextFundBatch ==
    \/ \E symbols \in FundSymbolLists : CmfStart(symbols)
    \/ CmfSkip
    \/ CmfCollect
    \/ CmfSubCollections
    \/ CmfRecord
    \/ CmfRaised
    \/ CmfReturn

SpecFundBatch == Init /\ [][NextFundBatch]_vars

----------------------------------------------------------------------------
(* The API keys of config/settings.py, as fetch_news, collect_company_profile
   and collect_key_ratios read them *)

\* which settings the environment sets; settings.py has no DATABASE_PATH
Environments ==
    [NEWSAPI_KEY : BOOLEAN, ALPHA_VANTAGE_API_KEY : BOOLEAN,
     COLLECT_FUNDAMENTALS : BOOLEAN, DATABASE_PATH : {FALSE}]

\* the feeds of at most one article
ShortFeeds == {f \in Feeds : Len(f) <= 1}

InitSettings ==
    /\ MarketInit
    /\ CmIdle
    /\ NewsIdle /\ np_cfg = SYMBOLS /\ np_feed \in ShortFeeds
    /\ FundIdle
    /\ CmfIdle
    /\ FnIdle
    /\ env \in {e \in Environments : e.COLLECT_FUNDAMENTALS}
    /\ main_pc = "idle"
    /\ main_status = -1
    /\ main_steps = << >>
    /\ main_error = "none"

\* the answers the OVERVIEW request can get under the settings: the request
\* is not sent exactly when settings.ALPHA_VANTAGE_API_KEY is empty
KeyedResponses ==
    {resp \in ProfileResponses :
        (resp.status = "no_key") = ~env.ALPHA_VANTAGE_API_KEY}

\* process_and_store, run once and first; fetch_news returns [] without a
\* request when settings.NEWSAPI_KEY is empty
StNews(fetched) ==
    /\ np_runs = 0
    /\ fa_pc = "idle" /\ f_calls = 0
    /\ fetched => env.NEWSAPI_KEY
    /\ NpStart(fetched)

\* collect_all_fundamentals(symbol), once the news step is over or was not run
StFundamentals(s) ==
    /\ np_pc \in {"idle", "done"}
    /\ FaStart(s)

StProfile == \E resp \in KeyedResponses : \E flt \in PgFaults : FaProfile(resp, flt)

StRatios ==
    \E resp \in KeyedResponses : \E today \in 1..MaxDate :
        \E flt \in EngineFaults : FaRatios(resp, today, flt)

NextSettings ==
    \/ \E fetched \in BOOLEAN : StNews(fetched)
    \/ NpSkip
    \/ \E list \in UNION { [1..n -> np_cfg] : n \in 0..Cardinality(np_cfg) } :
           NpInsert(list)
    \/ NpInsertSwallowed
    \/ NpInsertRaises
    \/ NpFinish
    \/ \E s \in SYMBOLS : StFundamentals(s)
    \/ StProfile
    \/ \E d \in StatementData : \E flt \in StatementFaults : FaStatements(d, flt)
    \/ StRatios

SpecSettings == InitSettings /\ [][NextSettings]_vars

----------------------------------------------------------------------------
(* main(): main.py. MarketDataCollector() builds the DatabaseManager of
   storage/database.py, whose __init__ reads settings.DATABASE_PATH; the
   class Settings has no such attribute, so the construction raises
   AttributeError and main leaves its try block at line 25, before any
   collection step. *)

\* np_cfg holds settings.SYMBOLS
InitMain ==
    /\ MarketInit
    /\ CmIdle
    /\ NewsIdle /\ np_cfg \in SymbolConfigs /\ np_feed = << >>
    /\ FundIdle
    /\ CmfIdle
    /\ FnIdle
    /\ env \in Environments
    /\ main_pc = "idle"
    /\ main_status = -1
    /\ main_steps = << >>
    /\ main_error = "none"

\* the steps of main up to the construction of the first collector, in order
MainOrder ==
    <<"create_directories", "DatabaseManager", "create_news_table",
      "create_fundamentals_tables", "MarketDataCollector">>

MainAfter(step) ==
    MainOrder[(CHOOSE k \in 1..(Len(MainOrder) - 1) : MainOrder[k] = step) + 1]

\* the steps whose call can raise for a reason outside the program: mkdir,
\* create_engine / create_all, psycopg2.connect
MainCanRaise == {"create_directories", "DatabaseManager", "create_news_table"}

MainUnchanged == UNCHANGED <<mvars, cmVars, newsVars, fundVars, cmfVars, fnVars, env>>

\* main() is called
MainBegin ==
    /\ main_pc = "idle"
    /\ main_pc' = "create_directories"
    /\ UNCHANGED <<main_status, main_steps, main_error>>
    /\ MainUnchanged

\* a step runs to its end
MainStep ==
    /\ main_pc \in MainCanRaise \cup {"create_fundamentals_tables"}
    /\ main_pc' = MainAfter(main_pc)
    /\ main_steps' = Append(main_steps, main_pc)
    /\ UNCHANGED <<main_status, main_error>>
    /\ MainUnchanged

\* except Exception: sys.exit(1); an exception of create_directories is
\* raised outside the try block and ends the process with status 1 as well
MainExit ==
    /\ main_pc' = "exited"
    /\ main_status' = 1
    /\ main_error' = main_pc
    /\ UNCHANGED main_steps
    /\ MainUnchanged

\* a step raises for a reason outside the program
MainStepRaises ==
    /\ main_pc \in MainCanRaise
    /\ MainExit

\* market_collector = MarketDataCollector(): self.db_path = db_path or
\* settings.DATABASE_PATH raises AttributeError
MainMarketCollectorRaises ==
    /\ main_pc = "MarketDataCollector"
    /\ ~env.DATABASE_PATH
    /\ MainExit

NextMain ==
    \/ MainBegin
    \/ MainStep
    \/ MainStepRaises
    \/ MainMarketCollectorRaises

SpecMain == InitMain /\ [][NextMain]_vars

----------------------------------------------------------------------------
(* FundamentalsAnalyzer.calculate_financial_health_score:
   utils/fundamentals_analyzer.py *)

\* every collector is idle and every table is empty
CollectorsIdle ==
    /\ MarketInit
    /\ CmIdle
    /\ NewsIdle /\ np_cfg = SYMBOLS /\ np_feed = << >>
    /\ FundIdle
    /\ CmfIdle
    /\ MainIdle

\* a field of the summary row: None, or a number
None == [present |-> FALSE, value |-> 0]

Some(v) == [present |-> TRUE, value |-> v]

\* roe, in percent
RoeValues == {None} \cup {Some(v) : v \in {-1, 0, 5, 6, 10, 11, 15, 16, 20, 21, 25}}

\* pe_ratio
PeValues == {None} \cup {Some(v) : v \in {-1, 0, 10, 14, 15, 19, 20, 24, 25, 34, 35}}

\* debt_to_equity, in tenths
DebtValues == {None} \cup {Some(v) : v \in {-1, 0, 2, 3, 4, 5, 9, 10, 19, 20, 30}}

\* revenue, in units of 100 million
RevenueValues == {None} \cup {Some(v) : v \in {-1, 0, 1, 2, 10, 11, 100, 101, 500, 501, 600}}

\* what get_company_fundamentals_summary gives: a row, no row, an error
Snapshots ==
    [lookup : {"row"}, roe : RoeValues, pe_ratio : PeValues,
     debt_to_equity : DebtValues, revenue : RevenueValues]
    \cup [lookup : {"empty", "raises"}, roe : {None}, pe_ratio : {None},
          debt_to_equity : {None}, revenue : {None}]

\* the truth value Python gives a field: None and 0 are false
Truthy(x) == x.present /\ x.value # 0

\* variant: the thresholds of ROE are inclusive
ProfitabilityInclusive(roe) ==
    IF Truthy(roe) /\ roe.value > 0
    THEN IF roe.value >= 20 THEN 25
         ELSE IF roe.value >= 15 THEN 20
         ELSE IF roe.value >= 10 THEN 15
         ELSE IF roe.value >= 5 THEN 10 ELSE 5
    ELSE 0

\* scores['profitability']
Profitability(roe) ==
    IF Truthy(roe) /\ roe.value > 0
    THEN IF roe.value > 20 THEN 25
         ELSE IF roe.value > 15 THEN 20
         ELSE IF roe.value > 10 THEN 15
         ELSE IF roe.value > 5 THEN 10 ELSE 5
    ELSE 0

\* scores['valuation']
Valuation(pe_ratio) ==
    IF Truthy(pe_ratio) /\ pe_ratio.value > 0
    THEN IF pe_ratio.value < 15 THEN 25
         ELSE IF pe_ratio.value < 20 THEN 20
         ELSE IF pe_ratio.value < 25 THEN 15
         ELSE IF pe_ratio.value < 35 THEN 10 ELSE 5
    ELSE 0

\* scores['debt']: debt_to_equity is not None; 0.3, 0.5, 1.0, 2.0 in tenths
Debt(debt_to_equity) ==
    IF debt_to_equity.present
    THEN IF debt_to_equity.value < 3 THEN 25
         ELSE IF debt_to_equity.value < 5 THEN 20
         ELSE IF debt_to_equity.value < 10 THEN 15
         ELSE IF debt_to_equity.value < 20 THEN 10 ELSE 5
    ELSE 0

\* scores['growth']: 50B, 10B, 1B, 100M in units of 100 million
Growth(revenue) ==
    IF Truthy(revenue) /\ revenue.value > 0
    THEN IF revenue.value > 500 THEN 25
         ELSE IF revenue.value > 100 THEN 20
         ELSE IF revenue.value > 10 THEN 15
         ELSE IF revenue.value > 1 THEN 10 ELSE 5
    ELSE 0

\* variant: an error of the lookup reaches the caller
ZeroScoreRaising == [total |-> 0, breakdown |-> << >>, raised |-> TRUE]

\* return 0.0, {}
ZeroScore == [total |-> 0, breakdown |-> << >>, raised |-> FALSE]

\* except Exception as e: return 0.0, {}
ScoreOnError == ZeroScore

\* calculate_financial_health_score, given what the lookup does
CalculateFinancialHealthScore(snapshot) ==
    IF snapshot.lookup = "raises" THEN ScoreOnError
    ELSE IF snapshot.lookup = "empty" THEN ZeroScore
    ELSE LET scores == "profitability" :> Profitability(snapshot.roe)
                       @@ "valuation" :> Valuation(snapshot.pe_ratio)
                       @@ "debt" :> Debt(snapshot.debt_to_equity)
                       @@ "growth" :> Growth(snapshot.revenue)
         IN  [total |-> scores["profitability"] + scores["valuation"]
                          + scores["debt"] + scores["growth"],
              breakdown |-> scores, raised |-> FALSE]

InitScore ==
    /\ CollectorsIdle
    /\ fn_pc = "idle"
    /\ fn_arg \in Snapshots
    /\ fn_ret = << >>

ScoreCall ==
    /\ fn_pc = "idle"
    /\ fn_pc' = "done"
    /\ fn_ret' = CalculateFinancialHealthScore(fn_arg)
    /\ UNCHANGED fn_arg
    /\ UNCHANGED collectorVars

SpecScore == InitScore /\ [][ScoreCall]_vars

----------------------------------------------------------------------------
(* analyze_sentiment: analysis/sentiment_analyzer.py *)

\* texts: empty, blank, and with a word
SentimentTexts == { << >>, <<" ">>, <<" ", " ">>, <<"x">>, <<" ", "x", " ">> }

\* polarities TextBlob can give, in ten-thousandths; none is half-way
\* between two thousandths
Polarities ==
    {-10000, -1006, -1004, -1001, -1000, -999, -996, -4, 0,
     4, 996, 999, 1000, 1001, 1004, 1006, 10000}

\* round(polarity, 3): ten-thousandths to thousandths
Round3(p) == IF p % 10 < 5 THEN p \div 10 ELSE (p \div 10) + 1

\* the label of a polarity: the thresholds are 0.1 and -0.1
LabelOf(polarity) ==
    IF polarity > 1000 THEN "positive"
    ELSE IF polarity < -1000 THEN "negative" ELSE "neutral"

\* analyze_sentiment(text), polarity being blob.sentiment.polarity; the
\* score is in thousandths
AnalyzeSentiment(text, polarity) ==
    IF text = << >> \/ Strip(text) = << >>
    THEN [label |-> "neutral", score |-> 0]
    ELSE [label |-> LabelOf(polarity), score |-> Round3(polarity)]

InitSentiment ==
    /\ CollectorsIdle
    /\ fn_pc = "idle"
    /\ fn_arg \in [text : SentimentTexts, polarity : Polarities]
    /\ fn_ret = << >>

SentimentCall ==
    /\ fn_pc = "idle"
    /\ fn_pc' = "done"
    /\ fn_ret' = AnalyzeSentiment(fn_arg.text, fn_arg.polarity)
    /\ UNCHANGED fn_arg
    /\ UNCHANGED collectorVars

SpecSentiment == InitSentiment /\ [][SentimentCall]_vars

----------------------------------------------------------------------------
(* calculate_sma, calculate_rsi: utils/indicators.py
   Positions count from 1: position k is index k - 1 of the Series. *)

\* the frames handed to an indicator: with or without the column Close
IndicatorInputs ==
    [has_close : BOOLEAN,
     close : UNION { [1..n -> 1..MaxClose] : n \in 0..MaxSeries },
     window : 1..MaxWindow]

\* a float that is a ratio of integers, and the float NaN
Ratio(n, d) == [nan |-> FALSE, num |-> n, den |-> d]

NotANumber == [nan |-> TRUE, num |-> 0, den |-> 1]

\* the sum rolling() keeps: each step adds the new close and removes the
\* one that left the window
RECURSIVE RollingSum(_, _, _)
RollingSum(close, window, k) ==
    IF k = 0 THEN 0
    ELSE RollingSum(close, window, k - 1) + close[k]
             - (IF k > window THEN close[k - window] ELSE 0)

\* variant: a window of window + 1 closes
SmaWide(close, window) ==
    [k \in 1..Len(close) |->
        IF k < window + 1 THEN NotANumber
        ELSE Ratio(RollingSum(close, window + 1, k), window + 1)]

\* data['Close'].rolling(window=window).mean(): NaN until the window is full
Sma(close, window) ==
    [k \in 1..Len(close) |->
        IF k < window THEN NotANumber
        ELSE Ratio(RollingSum(close, window, k), window)]

\* calculate_sma
CalculateSma(frame) ==
    IF ~frame.has_close THEN [raised |-> "ValueError", values |-> << >>]
    ELSE [raised |-> "none", values |-> Sma(frame.close, frame.window)]

\* delta = data['Close'].diff(); 0 stands for the NaN of the first position,
\* which both where() calls replace by 0
Delta(close, k) == IF k = 1 THEN 0 ELSE close[k] - close[k - 1]

\* gain = delta.where(delta > 0, 0)
Gain(close, k) == IF Delta(close, k) > 0 THEN Delta(close, k) ELSE 0

\* loss = (-delta).where(delta < 0, 0)
Loss(close, k) == IF Delta(close, k) < 0 THEN -Delta(close, k) ELSE 0

RECURSIVE Pow(_, _)
Pow(b, e) == IF e = 0 THEN 1 ELSE b * Pow(b, e - 1)

\* ewm(com=window - 1).mean() at position k, times its sum of weights and
\* window^(k-1): the weights are ((window - 1) / window)^age
RECURSIVE EwmNum(_, _, _, _)
EwmNum(X(_, _), close, window, k) ==
    IF k = 0 THEN 0
    ELSE (window - 1) * EwmNum(X, close, window, k - 1)
             + Pow(window, k - 1) * X(close, k)

\* variant: a zero average loss gives rs = 0
FloatDivZeroIsZero(a, b) == IF b = 0 THEN Ratio(0, 1) ELSE Ratio(a, b)

\* a / b in floats, for a >= 0 and b >= 0: inf is Ratio(1, 0)
FloatDiv(a, b) ==
    IF b = 0 THEN (IF a = 0 THEN NotANumber ELSE Ratio(1, 0)) ELSE Ratio(a, b)

\* 100 - (100 / (1 + rs))
RsiOf(rs) ==
    IF rs.nan THEN NotANumber
    ELSE IF rs.den = 0 THEN Ratio(100, 1)
    ELSE Ratio(100 * rs.num, rs.num + rs.den)

\* the Series rsi: NaN before min_periods samples
Rsi(close, window) ==
    [k \in 1..Len(close) |->
        IF k < window THEN NotANumber
        ELSE RsiOf(FloatDiv(EwmNum(Gain, close, window, k),
                            EwmNum(Loss, close, window, k)))]

\* calculate_rsi
CalculateRsi(frame) ==
    IF ~frame.has_close THEN [raised |-> "ValueError", values |-> << >>]
    ELSE [raised |-> "none", values |-> Rsi(frame.close, frame.window)]

InitIndicator ==
    /\ CollectorsIdle
    /\ fn_pc = "idle"
    /\ fn_arg \in IndicatorInputs
    /\ fn_ret = << >>

SmaCall ==
    /\ fn_pc = "idle"
    /\ fn_pc' = "done"
    /\ fn_ret' = CalculateSma(fn_arg)
    /\ UNCHANGED fn_arg
    /\ UNCHANGED collectorVars

SpecSma == InitIndicator /\ [][SmaCall]_vars

RsiCall ==
    /\ fn_pc = "idle"
    /\ fn_pc' = "done"
    /\ fn_ret' = CalculateRsi(fn_arg)
    /\ UNCHANGED fn_arg
    /\ UNCHANGED collectorVars

SpecRsi == InitIndicator /\ [][RsiCall]_vars

----------------------------------------------------------------------------
(* DatabaseManager.get_market_data: storage/database.py (SQLite) and
   storage/database_postgres.py (PostgreSQL) *)

READ_INTERVALS == {"1d", "1h"}

StoredKeys == [symbol : SYMBOLS, datetime : 1..MaxStored, interval_type : READ_INTERVALS]

StoredKeySets == {K \in SUBSET StoredKeys : Cardinality(K) <= MaxStored}

\* the contents of a price table: at most one row for a (symbol, datetime,
\* interval), as the UNIQUE constraint of either store has it
StoredTables ==
    UNION { { { [symbol |-> k.symbol, datetime |-> k.datetime,
                 interval_type |-> k.interval_type, close |-> f[k]] : k \in K } :
              f \in [K -> 1..2] } : K \in StoredKeySets }

ReadInputs ==
    [store : {"sqlite", "postgres"}, table : StoredTables, symbol : SYMBOLS,
     interval : READ_INTERVALS, limit : 0..MaxLimit, fails : BOOLEAN]

\* WHERE symbol = ? AND interval_type = ? / filter_by(symbol=, interval=)
Matching(table, s, iv) ==
    {r \in table : r.symbol = s /\ r.interval_type = iv}

\* ORDER BY datetime DESC / order_by(MarketData.timestamp.desc())
RECURSIVE Descending(_)
Descending(rows) ==
    IF rows = {} THEN << >>
    ELSE LET m == CHOOSE r \in rows : \A q \in rows : q.datetime <= r.datetime
         IN  << m >> \o Descending(rows \ {m})

\* LIMIT ? / .limit(limit), for a limit that is not negative
Limit(rows, n) == SubSeq(rows, 1, IF n < Len(rows) THEN n ELSE Len(rows))

\* the columns handed back, with the index
Bar(r) == [datetime |-> r.datetime, close |-> r.close]

Bars(rows) == [i \in 1..Len(rows) |-> Bar(rows[i])]

\* df.sort_index(inplace=True): ascending by the index
RECURSIVE SortIndex(_)
SortIndex(rows) ==
    IF rows = << >> THEN << >>
    ELSE LET i == CHOOSE j \in 1..Len(rows) :
                      \A q \in 1..Len(rows) : rows[j].datetime <= rows[q].datetime
         IN  << rows[i] >> \o
             SortIndex([j \in 1..(Len(rows) - 1) |->
                           IF j < i THEN rows[j] ELSE rows[j + 1]])

\* database.py lines 93-110: the rows come back as the query orders them;
\* an error of the store is not caught
GetMarketDataSqlite(table, s, iv, limit, fails) ==
    IF fails THEN [raised |-> TRUE, rows |-> << >>]
    ELSE [raised |-> FALSE,
          rows |-> Bars(Limit(Descending(Matching(table, s, iv)), limit))]

\* database_postgres.py lines 110-132: the rows of the query are put into a
\* frame that is then sorted by its index; an error gives an empty frame
GetMarketDataPostgres(table, s, iv, limit, fails) ==
    IF fails THEN [raised |-> FALSE, rows |-> << >>]
    ELSE [raised |-> FALSE,
          rows |-> SortIndex(Bars(Limit(Descending(Matching(table, s, iv)), limit)))]

GetMarketData(arg) ==
    IF arg.store = "sqlite"
    THEN GetMarketDataSqlite(arg.table, arg.symbol, arg.interval, arg.limit, arg.fails)
    ELSE GetMarketDataPostgres(arg.table, arg.symbol, arg.interval, arg.limit, arg.fails)

InitRead ==
    /\ CollectorsIdle
    /\ fn_pc = "idle"
    /\ fn_arg \in ReadInputs
    /\ fn_ret = << >>

ReadCall ==
    /\ fn_pc = "idle"
    /\ fn_pc' = "done"
    /\ fn_ret' = GetMarketData(fn_arg)
    /\ UNCHANGED fn_arg
    /\ UNCHANGED collectorVars

SpecRead == InitRead /\ [][ReadCall]_vars

----------------------------------------------------------------------------
(* Properties of the price-bar write *)

RowsOfKey(table, s, dt, iv) ==
    {r \in table : r.symbol = s /\ r.datetime = dt /\ r.interval_type = iv}

Frame(rows) == [columns |-> Required, rows |-> rows]

WriteDone == pc = "done" /\ saved /\ fault = "none"

\* C1: after one bar has been written through the collector, the table
\* holds exactly one row for its (symbol, timestamp, interval) and that row
\* carries the close just written, whatever close an earlier write stored
\* for the key.
C1_SecondCloseWins ==
    (WriteDone /\ Len(data.rows) = 1) =>
        LET k == RowsOfKey(market_data, symbol, Strftime(data.rows[1].ts),
                           interval)
        IN  /\ Cardinality(k) = 1
            /\ \A r \in k : r.close = data.rows[1].close

\* C2: writing the batch that has just been written a second time leaves the
\* table as it is and returns an inserted count of 0.
C2_SecondWriteIdempotent ==
    WriteDone =>
        LET again == SaveMarketData(market_data, data, symbol, interval, {})
        IN  /\ again.table = market_data
            /\ again.inserted = 0

\* a first write that inserted two rows
C2_Witness == WriteDone /\ inserted = 2

\* C3: the table never holds two rows with the same (symbol, timestamp,
\* interval).
C3_OneRowPerKey ==
    \A a \in market_data : \A b \in market_data : SameKey(a, b) => a = b

\* a written batch that holds one timestamp twice, with different closes
C3_Witness ==
    /\ WriteDone
    /\ Len(data.rows) = 2
    /\ data.rows[1].ts = data.rows[2].ts
    /\ data.rows[1].close # data.rows[2].close

----------------------------------------------------------------------------
(* Properties of collect *)

\* C4: when the fetched data holds a row with High < Low, the step that
\* follows returns False, does not enter the write and leaves the table
\* untouched.
C4_HighBelowLowWritesNothing ==
    [][ (pc = "fetched" /\ HighBelowLow(data)) =>
            /\ market_data' = market_data
            /\ result' = FALSE
            /\ ~saved' ]_vars

\* collect has returned on a feed with one valid row and one High < Low row
C4_Witness ==
    /\ pc = "done"
    /\ result = FALSE
    /\ Len(data.rows) = 2
    /\ HighBelowLow(data)
    /\ ~HighBelowLow(Frame(<<data.rows[1]>>))

\* C5: while every call of the wrapped function fails the retrier stays in
\* its loop for fewer than MAX_RETRIES calls; it raises after exactly
\* MAX_RETRIES calls, without a value, the error raised is the one of the
\* last call, and a call that ends without a value has raised.
C5_RaisesAfterMaxRetries ==
    /\ (raised => (calls = MAX_RETRIES /\ data = NoData /\ pc = "done"))
    /\ (raised => error = MAX_RETRIES)
    /\ (pc = "retry" => (calls < MAX_RETRIES /\ ~raised))
    /\ ((pc = "done" /\ data = NoData) => raised)

C5_Witness == raised /\ calls = 3 /\ result = FALSE

Backoffs == SelectSeq(events, LAMBDA e : e.kind = "backoff")

RECURSIVE SumSecs(_)
SumSecs(seq) == IF seq = << >> THEN 0 ELSE Head(seq).secs + SumSecs(Tail(seq))

\* C6: the k-th backoff (k from 0) lasts 2^k, every backoff stands between a
\* failed provider call and the next attempt, one backoff is slept per failed
\* attempt that is followed by another, and a call that failed MAX_RETRIES
\* times has slept MAX_RETRIES - 1 backoffs, 1 + 2 in total, none of them
\* after the last attempt.
C6_ExponentialBackoff ==
    /\ \A k \in 1..Len(Backoffs) : Backoffs[k].secs = 2 ^ (k - 1)
    /\ Len(Backoffs) = attempt
    /\ \A i \in 1..Len(events) :
           events[i].kind = "backoff" =>
               /\ i > 1 /\ events[i - 1].kind = "provider_call"
               /\ (pc \in {"done", "fetched"} => i < Len(events))
    /\ (raised => (Len(Backoffs) = MAX_RETRIES - 1 /\ SumSecs(Backoffs) = 1 + 2))

C6_Witness == raised /\ Len(Backoffs) = 2

\* C7: every provider call is directly preceded by one sleep of the
\* inter-call delay.
C7_RateLimitBeforeEachCall ==
    \A i \in 1..Len(events) :
        events[i].kind = "provider_call" =>
            /\ i > 1
            /\ events[i - 1].kind = "rate_limit"
            /\ events[i - 1].secs = REQUEST_DELAY

\* a fetch that succeeded at the third attempt
C7_Witness == pc = "fetched" /\ calls = 3

\* C8: when the fetch returned an empty result, collect returns False
\* without validating and without writing, and the table is untouched.
C8_EmptyIsFailureWithoutWrite ==
    [][ (pc = "fetched" /\ Len(data.rows) = 0) =>
            /\ result' = FALSE
            /\ pc' = "done"
            /\ ~validated'
            /\ ~saved'
            /\ market_data' = market_data ]_vars

C8_Witness ==
    pc = "done" /\ ~raised /\ Len(data.rows) = 0 /\ result = FALSE

WarnOnly(df) ==
    /\ MissingColumns(df) = {}
    /\ Len(df.rows) > 0
    /\ ~HighBelowLow(df)
    /\ (NonPositivePrices(df) \/ Outliers(df))

\* C9: data with all columns and no High < Low row, but with a non-positive
\* price or a close that moves by more than 50%, passes validation and is
\* handed to the write; unless the write itself raises, collect returns True,
\* and when no INSERT failed every row of the data has its key in the table.
C9_WarningsDoNotBlock ==
    (pc = "done" /\ WarnOnly(data)) =>
        /\ validated /\ saved
        /\ (fault # "connection" => result = TRUE)
        /\ (fault = "none" =>
               \A i \in 1..Len(data.rows) :
                   RowsOfKey(market_data, symbol, Strftime(data.rows[i].ts),
                             interval) # {})

\* a written batch with a non-positive price and a batch with a 100% move
C9_Witness ==
    /\ WriteDone
    /\ result = TRUE
    /\ Len(data.rows) = 2
    /\ data.rows[1].close = 1
    /\ data.rows[2].close = 2
    /\ data.rows[1].open = 0

\* C10: a call of collect in which the storage write failed returns False.
C10_WriteFailureIsFailure ==
    (pc = "done" /\ fault # "none") => result = FALSE

\* C11: a call of save_market_data in which a write failed leaves the
\* table as it was before the call.
C11_FailedWriteRolledBack ==
    [][ (pc = "fetched" /\ fault' # "none") => market_data' = market_data ]_vars

----------------------------------------------------------------------------
(* Properties of collect_multiple *)

CollectsOf(trace) == SelectSeq(trace, LAMBDA e : e.kind = "collect")

\* C12: the collect calls made so far are those for the first symbols of the
\* list, in the order of the list, whatever the earlier calls returned; when
\* collect_multiple returns every symbol of the list has been collected and
\* the mapping holds a boolean for each of them.
C12_SequentialInOrder ==
    LET c == CollectsOf(cm_trace)
    IN  /\ Len(c) <= Len(cm_symbols)
        /\ \A k \in 1..Len(c) : c[k].symbol = NormalizeSymbol(cm_symbols[k])
        /\ (cm_pc \in {"loop", "returned"} => Len(c) = cm_i - 1)
        /\ (cm_pc = "collecting" => Len(c) = cm_i)
        /\ (cm_pc = "returned" =>
               /\ Len(c) = Len(cm_symbols)
               /\ DOMAIN cm_results =
                      {NormalizeSymbol(cm_symbols[k]) : k \in 1..Len(cm_symbols)}
               /\ \A n \in DOMAIN cm_results : cm_results[n] \in BOOLEAN)

\* a returned call over two symbols, the first failed and the second succeeded
C12_Witness ==
    /\ cm_pc = "returned"
    /\ Len(cm_symbols) = 2
    /\ NormalizeSymbol(cm_symbols[1]) # NormalizeSymbol(cm_symbols[2])
    /\ cm_results[NormalizeSymbol(cm_symbols[1])] = FALSE
    /\ cm_results[NormalizeSymbol(cm_symbols[2])] = TRUE

----------------------------------------------------------------------------
(* Properties of the news pipeline *)

\* the configured symbols whose base ticker is in the text, case-insensitively
Mentioned(text, cfg) ==
    {n \in cfg : Contains(Lower(text), Lower(BaseTicker(n)))}

\* the articles of a feed that have a title and are relevant
RelevantCount(articles, cfg) ==
    Cardinality({k \in DOMAIN articles :
        /\ articles[k].title # << >>
        /\ Mentioned(JoinedText(articles[k].title, ContentOf(articles[k])), cfg) # {}})

\* C13, as stated: every stored article has a configured base ticker in its
\* title (case-insensitively), whatever its content is.
C13_TitleHasTicker ==
    \A k \in DOMAIN news : Mentioned(news[k].title, np_cfg) # {}

\* C13, amended: every stored article has a configured base ticker in its
\* title and content taken together (title, a blank, content).
C13_TextHasTicker ==
    \A k \in DOMAIN news :
        Mentioned(JoinedText(news[k].title, news[k].content), np_cfg) # {}

\* an article is stored whose ticker is in the content only, after an article
\* with the ticker split between title and content was passed over
C13_Witness ==
    /\ np_pc = "done"
    /\ Len(np_articles) = 2
    /\ np_articles[1].title = <<"a", "a">>
    /\ Len(news) = 1
    /\ news[1].title = <<"x">>
    /\ Mentioned(news[1].content, np_cfg) = {"AAPL"}

\* C14: the symbols of every stored article are exactly the configured
\* symbols whose base ticker (suffix stripped, case-insensitive) is in its
\* title and content: none missing, none extra, none repeated.
C14_SymbolsExact ==
    \A k \in DOMAIN news :
        LET sy == news[k].symbols IN
        /\ ~news[k].symbols_null
        /\ {sy[i] : i \in DOMAIN sy}
             = Mentioned(JoinedText(news[k].title, news[k].content), np_cfg)
        /\ \A i \in DOMAIN sy : \A j \in DOMAIN sy : i # j => sy[i] # sy[j]

\* an article that mentions one symbol in its title and another in its
\* description, in mixed case
C14_Witness ==
    \E k \in DOMAIN news :
        /\ news[k].title = <<"G", "o", "o", "g", "l">>
        /\ news[k].content = <<"a", "a", "p", "l">>
        /\ news[k].symbols = <<"GOOGL", "AAPL">>

\* C15: a run in which no insert fails adds one row per titled, relevant
\* article of the fetched feed whatever is stored already, so that k runs
\* over a feed of n such articles leave k*n rows.
C15_NoDeduplication ==
    /\ (np_pc = "done" /\ np_run_failed = 0)
           => Len(news) - np_before = RelevantCount(np_articles, np_cfg)
    /\ (np_pc \in {"idle", "done"} /\ np_failed = 0)
           => Len(news) = np_fetches * RelevantCount(np_feed, np_cfg)

\* two runs over the same feed of two relevant articles leave four rows
C15_Witness ==
    /\ np_pc = "done"
    /\ np_fetches = 2
    /\ np_failed = 0
    /\ RelevantCount(np_feed, np_cfg) = 2
    /\ Len(news) = 4
    /\ news[1].title = news[3].title
    /\ news[2].title = news[4].title

\* C16: the count process_and_store reports is the number of rows the call
\* added to the news table; a failed insert is not counted.
C16_CountIsRowsAdded ==
    np_pc = "done" => np_inserted = Len(news) - np_before

----------------------------------------------------------------------------
(* Properties of the fundamentals store and collector *)

\* no two rows of a statements table have the same (symbol, date, period)
KeyUnique(table) ==
    \A r \in table : \A q \in table : SameStatementKey(r, q) => r = q

\* every row of the table is in it, unchanged, after the step
RowsKept(table, after) == \A r \in table : r \in after

\* C17: once an income statement, balance sheet, cash flow or ratios row is
\* stored for a key (symbol, date, period), no later insert changes it and
\* the key keeps exactly one row.
C17_StatementsNeverOverwritten ==
    [][ /\ RowsKept(income_statements, income_statements')
        /\ RowsKept(balance_sheets, balance_sheets')
        /\ RowsKept(cash_flows, cash_flows')
        /\ RowsKept(financial_ratios, financial_ratios')
        /\ KeyUnique(income_statements')
        /\ KeyUnique(balance_sheets')
        /\ KeyUnique(cash_flows')
        /\ KeyUnique(financial_ratios') ]_vars

\* an income statement with another amount was written without fault for a
\* key already stored, and the stored row is the old one
C17_Witness ==
    /\ f_op = "statements"
    /\ f_result
    /\ f_input.fault = "none"
    /\ "income" \in f_input.present
    /\ f_input.amount = 2
    /\ income_statements = {StatementRow(f_symbol, f_input.date, "FY", 1)}

\* C18: after any sequence of profile saves a symbol has one companies row
\* exactly when a save for it was committed, and the row is, field by field,
\* the profile of the most recent committed save.
C18_ProfileFullyReplaced ==
    \A s \in SYMBOLS :
        {r \in companies : r.symbol = s}
            = IF last_profile[s] = NoProfile THEN {} ELSE {last_profile[s]}

\* a stored profile was replaced by one that differs in every field, while
\* the other symbol has its own row
C18_Witness ==
    /\ f_op = "profile"
    /\ f_persisted
    /\ f_before = [symbol |-> f_symbol, company_name |-> "n1", market_cap |-> 1]
    /\ ProfileOf(companies, f_symbol)
           = [symbol |-> f_symbol, company_name |-> "n2", market_cap |-> 2]
    /\ Cardinality(companies) = 2

\* C19: collect_company_profile returns true only if the profile row was
\* persisted by that call.
C19_TrueOnlyIfPersisted ==
    (f_op = "profile" /\ f_result) => f_persisted

\* the order of one collect_all_fundamentals call
FaOrder == <<"profile", "sleep", "statements", "sleep", "ratios">>

\* C20: collect_all_fundamentals runs profile, statements and ratios in this
\* order, each once whatever the earlier ones returned, and returns a dict
\* with exactly the keys profile, statements and ratios and boolean values.
C20_FixedOrder ==
    LET kinds == [i \in DOMAIN fa_trace |-> fa_trace[i].kind] IN
    /\ Len(kinds) <= Len(FaOrder)
    /\ kinds = SubSeq(FaOrder, 1, Len(kinds))
    /\ \A i \in DOMAIN fa_trace :
           fa_trace[i].kind # "sleep" => fa_trace[i].symbol = f_symbol
    /\ fa_pc = "profile" => Len(kinds) = 0
    /\ fa_pc = "statements" => Len(kinds) = 2
    /\ fa_pc = "ratios" => Len(kinds) = 4
    /\ fa_pc = "returned" =>
           /\ kinds = FaOrder
           /\ DOMAIN fa_results = {"profile", "statements", "ratios"}
           /\ \A k \in DOMAIN fa_results : fa_results[k] \in BOOLEAN

\* the profile and the statements failed and the ratios were still collected
C20_Witness ==
    /\ fa_pc = "returned"
    /\ fa_results["profile"] = FALSE
    /\ fa_results["statements"] = FALSE
    /\ fa_results["ratios"] = TRUE
    /\ Cardinality(financial_ratios) = 1

----------------------------------------------------------------------------
(* Properties of the fundamentals batch *)

\* the name carries the suffix .SA
SuffixSA(name) ==
    LET t == Spelling[name] IN
    Len(t) >= 3 /\ t[Len(t) - 2] = "." /\ t[Len(t) - 1] = "S" /\ t[Len(t)] = "A"

\* the symbols of a list that are neither blank nor flagged, upper-cased and
\* stripped, in the order given
Supported(symbols) ==
    LET named == SelectSeq(symbols, LAMBDA raw : \E k \in DOMAIN raw : raw[k] # " ")
        names == [k \in 1..Len(named) |-> SymbolOf(Upper(Strip(named[k])))]
    IN  SelectSeq(names, LAMBDA n : ~SuffixSA(n))

\* the symbols collect_all_fundamentals was called for, in order
FundCollects ==
    LET c == SelectSeq(cmf_trace, LAMBDA e : e.kind = "collect")
    IN  [k \in 1..Len(c) |-> c[k].symbol]

\* the symbols that have a row in some fundamentals table
StoredSymbols ==
    {r.symbol : r \in companies \cup income_statements \cup balance_sheets
                       \cup cash_flows \cup financial_ratios}

\* C21: collect_multiple_fundamentals calls nothing, writes nothing and
\* records no entry for a symbol that ends with .SA; every other non-blank
\* symbol is collected, in the order given, and gets an entry, also after an
\* earlier symbol failed or raised.
C21_UnsupportedSkippedOthersCollected ==
    LET want == Supported(cmf_symbols) IN
    /\ Len(FundCollects) <= Len(want)
    /\ FundCollects = SubSeq(want, 1, Len(FundCollects))
    /\ \A n \in StoredSymbols \cup DOMAIN cmf_results : ~SuffixSA(n)
    /\ fa_pc # "idle" => ~SuffixSA(f_symbol)
    /\ cmf_pc = "loop" =>
           DOMAIN cmf_results = {FundCollects[k] : k \in DOMAIN FundCollects}
    /\ cmf_pc = "returned" =>
           /\ FundCollects = want
           /\ DOMAIN cmf_results = {want[k] : k \in DOMAIN want}

\* the first symbol raised, the second was skipped, and the third was
\* collected and has its entry
C21_Witness ==
    /\ cmf_pc = "returned"
    /\ cmf_valid = <<"AAPL", "VALE3.SA", "GOOGL">>
    /\ cmf_results["AAPL"] = ("success" :> FALSE)
    /\ DOMAIN cmf_results = {"AAPL", "GOOGL"}
    /\ DOMAIN cmf_results["GOOGL"] = {"profile", "statements", "ratios"}
    /\ "GOOGL" \in StoredSymbols

----------------------------------------------------------------------------
(* Properties of the health score *)

\* the bucket of a value v among four thresholds, counted from the best one
Bucket(hits) == 5 * (1 + Cardinality(hits))

\* C23: with a snapshot, each sub-score is the bucket of the tables (ROE
\* above 20, 15, 10, 5, else 5 when positive and 0 otherwise; P/E below 15,
\* 20, 25, 35, else 5, only when positive; debt/equity below 0.3, 0.5, 1.0,
\* 2.0, else 5, whenever present and 0 when absent; revenue above 50B, 10B,
\* 1B, 100M, else 5, only when positive), and the total is their sum, in
\* 0..100.
C23_ScoreMatchesTables ==
    (fn_pc = "done" /\ fn_arg.lookup = "row") =>
        LET roe == fn_arg.roe
            pe == fn_arg.pe_ratio
            de == fn_arg.debt_to_equity
            rev == fn_arg.revenue
            b == fn_ret.breakdown
        IN  /\ DOMAIN b = {"profitability", "valuation", "debt", "growth"}
            /\ b["profitability"] =
                   IF roe.present /\ roe.value > 0
                   THEN Bucket({t \in {20, 15, 10, 5} : roe.value > t}) ELSE 0
            /\ b["valuation"] =
                   IF pe.present /\ pe.value > 0
                   THEN Bucket({t \in {15, 20, 25, 35} : pe.value < t}) ELSE 0
            /\ b["debt"] =
                   IF de.present
                   THEN Bucket({t \in {3, 5, 10, 20} : de.value < t}) ELSE 0
            /\ b["growth"] =
                   IF rev.present /\ rev.value > 0
                   THEN Bucket({t \in {500, 100, 10, 1} : rev.value > t}) ELSE 0
            /\ fn_ret.total = b["profitability"] + b["valuation"] + b["debt"] + b["growth"]
            /\ fn_ret.total \in 0..100

\* roe 25, pe_ratio 10, debt_to_equity 0.2 and revenue 60e9 score 100
C23_Witness ==
    /\ fn_pc = "done"
    /\ fn_arg = [lookup |-> "row", roe |-> Some(25), pe_ratio |-> Some(10),
                 debt_to_equity |-> Some(2), revenue |-> Some(600)]
    /\ fn_ret.total = 100

\* C24: without a snapshot, and when the lookup raises, the score is 0 with
\* an empty breakdown; no error of the lookup reaches the caller.
C24_LenientScore ==
    fn_pc = "done" =>
        /\ ~fn_ret.raised
        /\ fn_arg.lookup \in {"empty", "raises"} =>
               fn_ret.total = 0 /\ fn_ret.breakdown = << >>

\* the lookup raised and the score is 0 with an empty breakdown
C24_Witness ==
    /\ fn_pc = "done"
    /\ fn_arg.lookup = "raises"
    /\ fn_ret = [total |-> 0, breakdown |-> << >>, raised |-> FALSE]

----------------------------------------------------------------------------
(* Properties of the sentiment score *)

\* the text has a character that is not a blank
HasWord(text) == \E k \in DOMAIN text : text[k] # " "

\* C25: an empty or blank text gives ("neutral", 0.0); any other text gives
\* the polarity rounded to 3 decimals, with the label "positive" exactly
\* when that returned score is above 0.1, "negative" exactly when it is
\* below -0.1, and "neutral" otherwise.
C25_LabelAgreesWithScore ==
    fn_pc = "done" =>
        IF HasWord(fn_arg.text)
        THEN /\ 10 * fn_ret.score - 5 < fn_arg.polarity
             /\ fn_arg.polarity < 10 * fn_ret.score + 5
             /\ fn_ret.label = "positive" <=> fn_ret.score > 100
             /\ fn_ret.label = "negative" <=> fn_ret.score < -100
             /\ fn_ret.label \in {"positive", "negative", "neutral"}
        ELSE fn_ret = [label |-> "neutral", score |-> 0]

----------------------------------------------------------------------------
(* Properties of the indicators *)

RECURSIVE SumOf(_)
SumOf(q) == IF q = << >> THEN 0 ELSE Head(q) + SumOf(Tail(q))

\* C26: for a window w >= 1 and a series of at least w closes, sma is
\* defined exactly from position w on (index w - 1) and is there the mean of
\* the last w closes; a frame without the column Close is rejected with
\* ValueError.
C26_SmaIsWindowMean ==
    fn_pc = "done" =>
        IF fn_arg.has_close
        THEN LET close == fn_arg.close
                 w == fn_arg.window
                 v == fn_ret.values
             IN  /\ fn_ret.raised = "none"
                 /\ Len(v) = Len(close)
                 /\ \A k \in DOMAIN v :
                        /\ v[k].nan <=> k < w
                        /\ k >= w =>
                               /\ v[k].den > 0
                               /\ v[k].num * w
                                    = SumOf(SubSeq(close, k - w + 1, k)) * v[k].den
        ELSE fn_ret.raised = "ValueError"

\* a series longer than its window, so that closes have left the window
C26_Witness ==
    /\ fn_pc = "done"
    /\ fn_arg = [has_close |-> TRUE, close |-> <<1, 3, 2, 3>>, window |-> 2]
    /\ fn_ret.values = <<NotANumber, Ratio(4, 2), Ratio(5, 2), Ratio(5, 2)>>

\* the positions that weigh in a smoothed average at position k: all of
\* them, but only k itself when the window is 1 (the weights are 0^age)
Weighing(k, w) == IF w = 1 THEN {k} ELSE 1..k

\* the smoothed average loss at position k is 0: no close that weighs fell
NoLoss(close, k, w) ==
    \A j \in Weighing(k, w) \ {1} : close[j] >= close[j - 1]

\* the smoothed average gain at position k is positive: a close that weighs rose
SomeGain(close, k, w) ==
    \E j \in Weighing(k, w) \ {1} : close[j] > close[j - 1]

\* C27: every rsi value that is a number lies in 0..100, and the value is
\* exactly 100 where the smoothed average loss is 0 and the smoothed
\* average gain is positive (as on a strictly rising series).
C27_RsiBounded ==
    (fn_pc = "done" /\ fn_arg.has_close) =>
        \A k \in DOMAIN fn_ret.values :
            LET r == fn_ret.values[k] IN
            /\ ~r.nan => (r.den > 0 /\ 0 <= r.num /\ r.num <= 100 * r.den)
            /\ (/\ k >= fn_arg.window
                /\ NoLoss(fn_arg.close, k, fn_arg.window)
                /\ SomeGain(fn_arg.close, k, fn_arg.window))
                   => (~r.nan /\ r.num = 100 * r.den)

\* the series rises, which gives 100, and then falls, which gives less
C27_Witness ==
    /\ fn_pc = "done"
    /\ fn_arg = [has_close |-> TRUE, close |-> <<1, 2, 3, 1>>, window |-> 2]
    /\ fn_ret.values[2] = Ratio(100, 1)
    /\ fn_ret.values[3] = Ratio(100, 1)
    /\ ~fn_ret.values[4].nan
    /\ fn_ret.values[4].num < 100 * fn_ret.values[4].den

\* C30: in every state reached by collect calls, every stored price bar
\* whose high and low are both present has high >= low.
C30_StoredHighNotBelowLow ==
    \A r \in market_data :
        (r.high # NaN /\ r.low # NaN) => r.high >= r.low

\* a call was offered a bar with High < Low and wrote nothing, and another
\* call stored a bar with both prices present next to one without a High
C30_Witness ==
    /\ pc = "done"
    /\ result = FALSE
    /\ HighBelowLow(data)
    /\ \E r \in market_data : r.high # NaN /\ r.low # NaN /\ r.high > r.low
    /\ \E r \in market_data : r.high = NaN
\* the rows stored for the symbol and interval of the read
ReadMatching == Matching(fn_arg.table, fn_arg.symbol, fn_arg.interval)

\* C28: a read of price bars for (symbol, interval, limit) that meets no
\* storage fault returns at most limit bars, namely the limit most recent
\* ones stored for that symbol and interval, ordered most-recent-first.
C28_MostRecentFirst ==
    (fn_pc = "done" /\ fn_arg \in ReadInputs /\ ~fn_arg.fails) =>
        LET rows == fn_ret.rows
            n    == Cardinality(ReadMatching)
        IN  /\ ~fn_ret.raised
            /\ Len(rows) = (IF fn_arg.limit < n THEN fn_arg.limit ELSE n)
            /\ \A i \in 1..Len(rows) :
                   \E r \in ReadMatching : rows[i] = Bar(r)
            /\ \A r \in ReadMatching :
                   \/ \E i \in 1..Len(rows) : rows[i] = Bar(r)
                   \/ \A i \in 1..Len(rows) : r.datetime < rows[i].datetime
            /\ \A i \in 1..Len(rows) : \A j \in 1..Len(rows) :
                   i < j => rows[i].datetime > rows[j].datetime
\* the event a sub-collection of collect_all_fundamentals has just recorded
SubCollectionEvent == fa_trace'[Len(fa_trace) + 1]

\* C22: with the fundamentals API key absent, collect_company_profile and
\* collect_key_ratios each return false without a provider call and without
\* a write, the statements sub-collection still runs and the call returns
\* its results instead of raising; with the news API key absent the news
\* step fetches nothing and inserts nothing.
C22_MissingKeySkipsStep ==
    [][ /\ (~env.ALPHA_VANTAGE_API_KEY /\ fa_pc = "profile" /\ fa_pc' # "profile") =>
               /\ fa_results'["profile"] = FALSE
               /\ SubCollectionEvent.kind = "profile"
               /\ SubCollectionEvent.requests = 0
               /\ companies' = companies
               /\ fa_pc' = "statements"
        /\ (~env.ALPHA_VANTAGE_API_KEY /\ fa_pc = "statements" /\ fa_pc' # "statements") =>
               /\ SubCollectionEvent.kind = "statements"
               /\ "statements" \in DOMAIN fa_results'
               /\ fa_pc' = "ratios"
        /\ (~env.ALPHA_VANTAGE_API_KEY /\ fa_pc = "ratios" /\ fa_pc' # "ratios") =>
               /\ fa_results'["ratios"] = FALSE
               /\ SubCollectionEvent.kind = "ratios"
               /\ SubCollectionEvent.requests = 0
               /\ financial_ratios' = financial_ratios
               /\ fa_pc' = "returned"
        /\ ~env.NEWSAPI_KEY =>
               /\ np_fetches' = 0
               /\ np_articles' = << >>
               /\ np_inserted' = 0
               /\ news' = << >> ]_vars

\* without either key: the news step has ended on a feed of one article with
\* nothing stored, and collect_all_fundamentals has returned with only the
\* statements collected
C22_Witness ==
    /\ env = [NEWSAPI_KEY |-> FALSE, ALPHA_VANTAGE_API_KEY |-> FALSE,
               COLLECT_FUNDAMENTALS |-> TRUE, DATABASE_PATH |-> FALSE]
    /\ np_pc = "done" /\ np_runs = 1 /\ Len(np_feed) = 1
    /\ np_fetches = 0 /\ news = << >>
    /\ fa_pc = "returned"
    /\ fa_results = [profile |-> FALSE, statements |-> TRUE, ratios |-> FALSE]
    /\ companies = {} /\ financial_ratios = {}
    /\ income_statements # {}
\* C29: an exception that escapes main ends the process with a non-zero
\* status, and a failed collection does not: a run in which no call into
\* the store or the file system raised goes on through the collection steps
\* and ends normally, with status 0.
C29_OnlyEscapingExceptionsAreFatal ==
    main_pc = "exited" =>
        /\ main_error # "none" => main_status # 0
        /\ main_error \notin MainCanRaise => main_status = 0
\* C31: rsi is a number at every position that has at least window
\* samples, also on a flat series, where the smoothed average gain and the
\* smoothed average loss are both 0.
C31_RsiNeverNaN ==
    (fn_pc = "done" /\ fn_arg.has_close) =>
        \A k \in DOMAIN fn_ret.values :
            k >= fn_arg.window => ~fn_ret.values[k].nan
ProviderCalls == SelectSeq(events, LAMBDA e : e.kind = "provider_call")

\* C35: when the wrapped function first succeeds on its k-th call
\* (1 <= k <= MAX_RETRIES), the retrier has called it exactly k times, hands
\* back a value and raises nothing, and has slept exactly the backoffs
\* 2^0 .. 2^(k-2) before that call; a retrier that has ended called the
\* function at least once.
C35_SucceedsOnKthCall ==
    /\ pc = "fetched" =>
           /\ calls = attempt + 1
           /\ 1 <= calls /\ calls <= MAX_RETRIES
           /\ Len(ProviderCalls) = calls
           /\ data \in DataFrames
           /\ ~raised
           /\ Len(Backoffs) = calls - 1
           /\ \A j \in 1..Len(Backoffs) : Backoffs[j].secs = 2 ^ (j - 1)
           /\ events[Len(events)].kind = "provider_call"
    /\ pc \in {"fetched", "done"} => calls >= 1

\* the second call succeeded after one backoff of 1, and the third after
\* backoffs of 1 and 2
C35_Witness ==
    /\ pc = "fetched"
    /\ calls = 3
    /\ ~raised
    /\ [j \in 1..Len(Backoffs) |-> Backoffs[j].secs] = <<1, 2>>
    /\ Len(data.rows) = 1
\* C36: collect never raises to its caller: it ends in a return, the value
\* returned is a boolean, and it is False when the fetch failed after all
\* retries or the write raised; collect_multiple has then called collect for
\* every symbol of its list.
C36_CollectNeverRaises ==
    /\ pc \in {"idle", "retry", "fetched", "done"}
    /\ pc = "done" => result \in BOOLEAN
    /\ pc # "done" => result = FALSE
    /\ (raised \/ fault = "connection") => (pc = "done" /\ result = FALSE)
    /\ cm_pc = "returned" => Len(CollectsOf(cm_trace)) = Len(cm_symbols)

\* collect_multiple has returned over two symbols: the fetch of the first
\* failed or was refused, and the write of the second raised
C36_Witness ==
    /\ cm_pc = "returned"
    /\ Len(cm_symbols) = 2
    /\ NormalizeSymbol(cm_symbols[1]) # NormalizeSymbol(cm_symbols[2])
    /\ cm_results[NormalizeSymbol(cm_symbols[1])] = FALSE
    /\ symbol = NormalizeSymbol(cm_symbols[2])
    /\ fault = "connection"
    /\ cm_results[symbol] = FALSE
\* C33: every entry of the mapping of collect_multiple_fundamentals has
\* exactly the three keys profile, statements and ratios, each with a
\* boolean, also for a symbol whose collection failed.
C33_EntriesHaveThreeKeys ==
    \A n \in DOMAIN cmf_results :
        /\ DOMAIN cmf_results[n] = {"profile", "statements", "ratios"}
        /\ \A key \in DOMAIN cmf_results[n] : cmf_results[n][key] \in BOOLEAN
\* the statement rows stored for a key, over the three statements tables
StatementsStored(inc, bal, csh, s, d) ==
    {r \in inc \cup bal \cup csh : r.symbol = s /\ r.date = d /\ r.period = "FY"}

\* C34: collect_financial_statements returns true exactly when a statement
\* was written during the call: after a call that returned true the store
\* holds a statement of the call's symbol and fiscal year, and a call that
\* returned false has left the three statements tables as they were.
C34_TrueExactlyWhenWritten ==
    [][ (f_op' = "statements" /\ f_calls' = f_calls + 1) =>
            /\ f_result' =>
                   StatementsStored(income_statements', balance_sheets',
                                    cash_flows', f_symbol', f_input'.date) # {}
            /\ ~f_result' =>
                   /\ income_statements' = income_statements
                   /\ balance_sheets' = balance_sheets
                   /\ cash_flows' = cash_flows ]_vars

-----------------------------------------------------------------------------
(* collect_key_ratios followed by calculate_financial_health_score:
   data_collectors/fundamentals_collector.py, utils/fundamentals_analyzer.py *)

\* a field of the OVERVIEW payload: the key is absent, or holds a number (in
\* the unit of the score model), or holds something float() rejects ("None",
\* "-", null)
PayloadAbsent == [kind |-> "absent", value |-> 0]

PayloadText == [kind |-> "text", value |-> 0]

PayloadNumber(v) == [kind |-> "number", value |-> v]

\* variant: an absent key gives None
FloatOfGetNone(field) ==
    IF field.kind = "absent" THEN None ELSE Some(field.value)

\* float(data.get(KEY, 0)) of a field float() accepts
FloatOfGet(field) ==
    IF field.kind = "absent" THEN Some(0) ELSE Some(field.value)

\* what requests.get gives: a 200 payload, another status, an exception
RatioPayloads ==
    [response : {"ok", "not200", "raises"}, has_symbol : BOOLEAN,
     roe : {PayloadAbsent, PayloadNumber(21)},
     pe_ratio : {PayloadAbsent, PayloadNumber(10)},
     debt_to_equity : {PayloadAbsent, PayloadText, PayloadNumber(0),
                       PayloadNumber(4), PayloadNumber(30)}]

\* a row of financial_ratios for (symbol, today, "TTM")
RatiosRow(roe, pe_ratio, debt_to_equity) ==
    [exists |-> TRUE, roe |-> roe, pe_ratio |-> pe_ratio,
     debt_to_equity |-> debt_to_equity]

\* no such row
NoRatios == [exists |-> FALSE, roe |-> None, pe_ratio |-> None, debt_to_equity |-> None]

\* the key is configured or not, the payload, the row of today that is stored
\* already, whether save_financial_ratios raises, whether the symbol has a
\* companies row, the revenue of its latest income statement
RatioInputs ==
    [has_key : BOOLEAN, payload : RatioPayloads,
     existing : {NoRatios, RatiosRow(Some(21), Some(10), Some(30))},
     save_raises : BOOLEAN, company : BOOLEAN, revenue : {None, Some(600)}]

\* collect_key_ratios: the result and the row of (symbol, today, "TTM")
\* afterwards; ON CONFLICT DO NOTHING keeps a row that is there
CollectKeyRatiosRow(in) ==
    LET p == in.payload
        kept == [result |-> FALSE, ratios |-> in.existing]
    IN  IF ~in.has_key THEN kept
        ELSE IF p.response # "ok" \/ ~p.has_symbol THEN kept
        ELSE IF "text" \in {p.roe.kind, p.pe_ratio.kind, p.debt_to_equity.kind}
             THEN kept
        ELSE IF in.save_raises THEN kept
        ELSE [result |-> TRUE,
              ratios |-> IF in.existing.exists THEN in.existing
                         ELSE RatiosRow(FloatOfGet(p.roe), FloatOfGet(p.pe_ratio),
                                        FloatOfGet(p.debt_to_equity))]

\* get_company_fundamentals_summary: companies LEFT JOIN the latest income
\* statement LEFT JOIN the latest ratios
SummaryOf(in, ratios) ==
    IF in.company
    THEN [lookup |-> "row", roe |-> ratios.roe, pe_ratio |-> ratios.pe_ratio,
          debt_to_equity |-> ratios.debt_to_equity, revenue |-> in.revenue]
    ELSE [lookup |-> "empty", roe |-> None, pe_ratio |-> None,
          debt_to_equity |-> None, revenue |-> None]

InitRatios ==
    /\ CollectorsIdle
    /\ fn_pc = "idle"
    /\ fn_arg \in RatioInputs
    /\ fn_ret = << >>

RatiosCollect ==
    /\ fn_pc = "idle"
    /\ fn_pc' = "collected"
    /\ fn_ret' = [collected |-> CollectKeyRatiosRow(fn_arg), score |-> << >>]
    /\ UNCHANGED fn_arg
    /\ UNCHANGED collectorVars

RatiosScore ==
    /\ fn_pc = "collected"
    /\ fn_pc' = "done"
    /\ fn_ret' = [fn_ret EXCEPT !.score =
                      CalculateFinancialHealthScore(
                          SummaryOf(fn_arg, fn_ret.collected.ratios))]
    /\ UNCHANGED fn_arg
    /\ UNCHANGED collectorVars

SpecRatios == InitRatios /\ [][RatiosCollect \/ RatiosScore]_vars

\* C38: when the payload has no debt-to-equity key and collect_key_ratios
\* stores its row, the row holds debt_to_equity = 0, and a health score then
\* computed for the symbol from that row gives the leverage sub-score 25.
C38_MissingDebtScoresTop ==
    (/\ fn_pc \in {"collected", "done"}
     /\ fn_arg.payload.debt_to_equity = PayloadAbsent
     /\ fn_ret.collected.result
     /\ ~fn_arg.existing.exists) =>
        /\ fn_ret.collected.ratios.exists
        /\ fn_ret.collected.ratios.debt_to_equity = Some(0)
        /\ (fn_pc = "done" /\ fn_arg.company) =>
               (/\ ~fn_ret.score.raised
                /\ fn_ret.score.breakdown["debt"] = 25)

\* a payload with the other ratios and no debt-to-equity, scored afterwards
C38_Witness ==
    /\ fn_pc = "done"
    /\ fn_arg.payload.debt_to_equity = PayloadAbsent
    /\ fn_arg.payload.roe = PayloadNumber(21)
    /\ fn_arg.company /\ ~fn_arg.existing.exists
    /\ fn_ret.collected.result
    /\ fn_ret.collected.ratios.debt_to_equity = Some(0)
    /\ fn_ret.score.breakdown["debt"] = 25
    /\ fn_ret.score.total >= 50

-----------------------------------------------------------------------------
(* The two price-bar stores: MarketDataCollector writes the SQLite file of
   storage/database.py, main reads its statistics from the PostgreSQL
   manager of storage/database_postgres.py (main.py lines 7, 18, 56) *)

\* frames of whole-second bars
StatsFrames ==
    {df \in DataFrames :
        /\ df.columns = Required
        /\ \A i \in DOMAIN df.rows :
               df.rows[i].ts.sub = 0 /\ df.rows[i].close = 1 /\ df.rows[i].high = 2}

\* contents of a market_data table
StatsTables ==
    {SaveMarketData({}, df, s, DEFAULT_INTERVAL, {}).table :
        df \in StatsFrames, s \in SYMBOLS}

\* what either store holds before the run, the symbol collected and the frame
\* the provider returns for it, whether the statistics query fails
StatsInputs ==
    [sqlite : StatsTables, postgres : StatsTables, target : SYMBOLS,
     frame : StatsFrames, stats_fails : BOOLEAN]

\* database_postgres.py get_stats: counts over the PostgreSQL market_data; an
\* error is logged and the initial dictionary returned
GetStatsPostgres(table, fails) ==
    IF fails
    THEN [total_records |-> 0, unique_symbols |-> 0, last_update |-> None]
    ELSE [total_records |-> Cardinality(table),
          unique_symbols |-> Cardinality({r.symbol : r \in table}),
          last_update |-> IF table = {} THEN None
                          ELSE Some(CHOOSE d \in {r.datetime : r \in table} :
                                        \A r \in table : r.datetime <= d)]

InitStats ==
    /\ CollectorsIdle
    /\ fn_pc = "idle"
    /\ fn_arg \in StatsInputs
    /\ fn_ret = << >>

\* market_collector.collect: self.db.save_market_data on the SQLite store
StatsCollect ==
    /\ fn_pc = "idle"
    /\ fn_pc' = "collected"
    /\ LET w == SaveMarketData(fn_arg.sqlite, fn_arg.frame, fn_arg.target,
                               DEFAULT_INTERVAL, {})
       IN  fn_ret' = [sqlite |-> w.table, postgres |-> fn_arg.postgres,
                      inserted |-> w.inserted, stats |-> << >>]
    /\ UNCHANGED fn_arg
    /\ UNCHANGED collectorVars

\* stats = db.get_stats(), db being the PostgreSQL manager
StatsReport ==
    /\ fn_pc = "collected"
    /\ fn_pc' = "done"
    /\ fn_ret' = [fn_ret EXCEPT !.stats =
                      GetStatsPostgres(fn_ret.postgres, fn_arg.stats_fails)]
    /\ UNCHANGED fn_arg
    /\ UNCHANGED collectorVars

SpecStats == InitStats /\ [][StatsCollect \/ StatsReport]_vars

\* C39: the total_records reported after a collection that inserted k bars
\* is k higher than the total of the same report before it, whenever the
\* statistics query itself succeeds.
C39_ReportCountsInsertedBars ==
    (fn_pc = "done" /\ ~fn_arg.stats_fails) =>
        fn_ret.stats.total_records
            = GetStatsPostgres(fn_arg.postgres, FALSE).total_records + fn_ret.inserted

-----------------------------------------------------------------------------
(* Termination: one call of main, or one call of collect_multiple on a
   collector, followed to its end. Every step of the program is taken once
   it is enabled: a provider or storage call returns or raises, and the
   interpreter goes on to the next statement. *)

\* an installation with both API keys and the default symbols
InitRun ==
    /\ InitMain
    /\ np_cfg = SYMBOLS
    /\ env.NEWSAPI_KEY /\ env.ALPHA_VANTAGE_API_KEY

\* main is called in a process in which no collector has run
RunMain ==
    /\ cm_calls = 0
    /\ NextMain

\* collect_multiple is called once, in a process in which main is not running
RunCollectMultiple ==
    /\ main_pc = "idle"
    /\ cm_calls = 0
    /\ \E symbols \in SymbolLists : CmStart(symbols)

NextRun ==
    \/ RunMain
    \/ RunCollectMultiple
    \/ CmCollect
    \/ \E df \in ShortFrames : FetchReturns(df)
    \/ FetchFailsRetry
    \/ FetchFailsLast
    \/ EmptyReturn
    \/ ValidateFails
    \/ \E failing \in SUBSET (1..Len(data.rows)) : SaveReturns(failing)
    \/ SaveRaises
    \/ CmRecord
    \/ CmReturn

SpecRunFair == InitRun /\ [][NextRun]_vars /\ WF_vars(NextRun)

====
